---------------------------- MODULE Spec2Model ----------------------------
(***************************************************************************)
(* The trading bot (src/backend/main.py) together with the simulated       *)
(* exchange it talks to (src/backend/mock_angelone_api.py).                *)
(*                                                                         *)
(* The exchange is one process: an event loop that runs one request        *)
(* handler at a time, and one background thread per accepted order         *)
(* (simulate_order_execution.process_order).  The threads share            *)
(* mock_store with the handlers and with each other and take no lock, so   *)
(* a thread is modelled one source statement at a time; statements that    *)
(* touch only the thread's locals are folded into the preceding step.      *)
(*                                                                         *)
(* The bot is a second process with one event loop.  Its handlers and its  *)
(* periodic tasks call the exchange with the blocking `requests` library   *)
(* and never yield inside a tick, so no bot task interleaves with another  *)
(* bot task; only the exchange moves between two HTTP calls of one task.   *)
(*                                                                         *)
(* Money is counted in hundredths (paise), so round(x, 2) is rounding to   *)
(* an integer.  str()/int()/float() of the stored fields are value         *)
(* preserving on the values that occur and are not modelled as text.       *)
(* Order and trade ids are counted from the counters' initial values.      *)
(* All requests carry the default exchange "NSE", so position_key is       *)
(* determined by the symbol token.  Every order is a MARKET order, the     *)
(* only type the bot sends.  The fields orderstatus, updatetime, buyvalue  *)
(* and sellvalue are written next to status, buyqty and sellqty and read   *)
(* by nothing; they are left out.                                          *)
(*                                                                         *)
(* The specifications of the exchange alone (SpecLedger, SpecSerial,       *)
(* SpecFill, SpecOrderApi, and FairOrderApi with each started thread       *)
(* scheduled) run the threads statement by statement.  Those of the bot    *)
(* (Spec, SpecAutoExit, SpecExit, SpecEntry, SpecStop, SpecContain) run    *)
(* each thread in one piece (process_order),                               *)
(* which yields the states the statements yield when no other thread or    *)
(* handler comes in between.  The clock moves in steps of ClockStep        *)
(* minutes from five minutes before AUTO_EXIT_TIME.  The prices the bot    *)
(* sees come from its price feed, for which the source has a placeholder   *)
(* (price_monitor); PriceFeed stands for its delivery of a last-traded     *)
(* price.  The variables req, modified, fillBuy, fillSell, fires and ax    *)
(* record history and are read by no action's guard but the bound on       *)
(* fires; ax.wake is the time at which auto_exit_monitor ends the sleep    *)
(* that follows a run.                                                     *)
(***************************************************************************)
EXTENDS Integers, Sequences, FiniteSets, TLC

(***************************************************************************)
(* Bounds of the model.                                                    *)
(***************************************************************************)
MaxOrders == 3
MaxClientOrders == 2
MaxApiOrders == 2
MaxTriggers == 2
MaxClockSteps == 2
MaxFires == 2

(***************************************************************************)
(* Program constants.                                                      *)
(***************************************************************************)
ORDER_TIMEOUT_MINUTES == 5
\* time(15, 25) as a minute of the day
AUTO_EXIT_TIME == 925

\* Symbol tokens of the exchange's scrip master (SBIN, RELIANCE).
Tokens == {"3045", "2885"}
\* A token of the bot's scrip master (loaded from the real broker) that the
\* simulated exchange does not list.
UnlistedToken == "9999"
BotTokens == Tokens \cup {UnlistedToken}

\* _init_stock_prices: the price an instrument starts at, in hundredths
\* (520.50 and 2850.75).
BasePrice(token) == IF token = "3045" THEN 52050 ELSE 285075

\* Last-traded prices a feed takes for an instrument, in hundredths.
Prices(token) == IF token = "3045" THEN {50000, 52050} ELSE {285075}

\* Optional request parameters default to None; no number a request is made
\* with here equals it.
None == -1

\* Trigger parameters requested: 5.00 points, 3 percent, or none given.
Points == {500, None}
Percentages == {3, None}
\* Order quantities requested.
Quantities == {1, 2}
Sides == {"BUY", "SELL"}

OrderIds == 1..MaxOrders

VARIABLES
  \* ---- exchange: mock_store
  orders,         \* order id -> order record
  order_counter,
  trades,         \* trade id -> trade record
  trade_counter,
  positions,      \* token -> reference of the position dict (0: key absent)
  heap,           \* reference -> position dict
  xprice,         \* mock_store.price_data[token]["ltp"]
  thr,            \* order id -> the locals and position of its thread
  hnd,            \* the exchange's event loop: the handler in progress
  \* ---- bot: bot_state
  authenticated,
  bot_active,
  active_orders,  \* trigger id -> trigger
  price_data,     \* bot_state.price_data[token]["ltp"], 0 when absent
  uuid_counter,   \* trigger ids handed out so far
  now,            \* the wall clock, minute of the day
  task,           \* the bot's event loop: the task in progress
  \* ---- history, read by no action
  req,            \* order id -> the request as place_order received it
  modified,       \* order ids on which modify_order's update landed
  fillBuy,        \* token -> sum of the quantities of the BUY fills applied
  fillSell,       \* token -> sum of the quantities of the SELL fills applied
  fires,          \* trigger id -> number of execute_trigger calls
  ax              \* the last auto-exit run, and when the monitor wakes up

xvars == <<orders, order_counter, trades, trade_counter, positions, heap,
           xprice, thr, hnd>>
bvars == <<authenticated, bot_active, active_orders, price_data,
           uuid_counter, now, task>>
hvars == <<req, modified, fillBuy, fillSell, fires, ax>>
vars == <<xvars, bvars, hvars>>

(***************************************************************************)
(* Helpers.                                                                *)
(***************************************************************************)
Abs(n) == IF n < 0 THEN -n ELSE n

\* round(n / d, 2) on hundredths, d > 0: Python rounds to nearest, ties to
\* the even neighbour.
Round2 (n, d) ==
  LET q == n \div d
      r == n % d
  IN  IF 2 * r < d THEN q
      ELSE IF 2 * r > d THEN q + 1
      ELSE IF q % 2 = 0 THEN q ELSE q + 1

\* d[k] = v on a dict modelled as a function.
Put(d, k, v) == [x \in DOMAIN d \cup {k} |-> IF x = k THEN v ELSE d[x]]

(***************************************************************************)
(* Exchange: records.                                                      *)
(***************************************************************************)
NoThread ==
  [pc |-> "none", current_price |-> 0, execution_price |-> 0, trade_id |-> 0,
   create |-> FALSE, position |-> 0, quantity |-> 0, current_net |-> 0,
   current_avg |-> 0, new_net |-> 0, new_avg |-> 0, avg_price |-> 0]

IdleHandler == [pc |-> "idle", orderid |-> 0, price |-> 0, quantity |-> 0]

\* The position dict created on the first fill of an instrument.
NewPosition(current_price) ==
  [netqty |-> 0, avgprice |-> 0, ltp |-> current_price, pnl |-> 0,
   buyqty |-> 0, sellqty |-> 0]

\* The order record place_order stores.
OrderData(token, side, qty) ==
  [symboltoken |-> token, transactiontype |-> side, ordertype |-> "MARKET",
   price |-> 0, quantity |-> qty, status |-> "pending"]

\* get_symbol_info finding every token.
get_symbol_info_AcceptsAll(token) == TRUE

\* get_symbol_info(symboltoken) is not None
get_symbol_info(token) == token \in Tokens

\* Position dicts no thread and no key refers to are gone.
Live(h, pos, th) ==
  LET refs == {pos[t] : t \in Tokens} \cup {th[o].position : o \in OrderIds}
  IN  [r \in (DOMAIN h) \cap refs |-> h[r]]


(***************************************************************************)
(* Exchange: request handlers (they run on the exchange's event loop, one  *)
(* at a time).                                                             *)
(***************************************************************************)
\* place_order: the id is drawn before the token is validated; an unlisted
\* token is refused with status False and nothing is stored.
place_order(token, side, qty, origin) ==
  LET order_id == order_counter + 1 IN
  /\ hnd.pc = "idle"
  /\ order_counter < MaxOrders
  /\ order_counter' = order_id
  /\ req' = Put(req, order_id,
                [symboltoken |-> token, transactiontype |-> side,
                 quantity |-> qty, origin |-> origin])
  /\ IF get_symbol_info(token)
     THEN /\ orders' = Put(orders, order_id, OrderData(token, side, qty))
          /\ thr' = [thr EXCEPT ![order_id] = [NoThread EXCEPT !.pc = "sleep"]]
     ELSE UNCHANGED <<orders, thr>>             \* "Invalid symbol token"
  /\ UNCHANGED <<trades, trade_counter, positions, heap, xprice, hnd>>

HasPosition(t) == positions[t] # 0

PositionOf(t) == heap[positions[t]]

\* get_positions: list(mock_store.positions.values())
get_positions == {heap[positions[t]] @@ [symboltoken |-> t] : t \in {u \in Tokens : positions[u] # 0}}

\* ModifyOrderCheck without the test of the status.
ModifyOrderCheck_AnyStatus(orderid, price, qty) ==
  /\ hnd.pc = "idle"
  /\ IF orderid \notin DOMAIN orders
     THEN UNCHANGED hnd
     ELSE hnd' = [pc |-> "modify", orderid |-> orderid,
                  price |-> price, quantity |-> qty]
  /\ UNCHANGED <<orders, order_counter, trades, trade_counter, positions,
                 heap, xprice, thr, bvars, hvars>>

\* The message of modify_order's answer.
modify_order_message(orderid) ==
  IF orderid \notin DOMAIN orders THEN "Order not found"
  ELSE IF orders[orderid].status # "pending" THEN "Cannot modify completed order"
  ELSE "SUCCESS"

\* The message of cancel_order's answer.
cancel_order_message(orderid) ==
  IF orderid \notin DOMAIN orders THEN "Order not found"
  ELSE IF orders[orderid].status # "pending" THEN "Cannot cancel completed order"
  ELSE "SUCCESS"

\* modify_order up to its test of the status.
ModifyOrderCheck(orderid, price, qty) ==
  /\ hnd.pc = "idle"
  /\ IF orderid \notin DOMAIN orders
     THEN UNCHANGED hnd                        \* "Order not found"
     ELSE IF orders[orderid].status # "pending"
          THEN UNCHANGED hnd                   \* "Cannot modify completed order"
          ELSE hnd' = [pc |-> "modify", orderid |-> orderid,
                       price |-> price, quantity |-> qty]
  /\ UNCHANGED <<orders, order_counter, trades, trade_counter, positions,
                 heap, xprice, thr, bvars, hvars>>

\* modify_order: order.update({price, quantity, triggerprice, updatetime})
ModifyOrderUpdate ==
  /\ hnd.pc = "modify"
  /\ orders' = [orders EXCEPT ![hnd.orderid].price = hnd.price,
                              ![hnd.orderid].quantity = hnd.quantity]
  /\ modified' = modified \cup {hnd.orderid}
  /\ hnd' = IdleHandler
  /\ UNCHANGED <<order_counter, trades, trade_counter, positions, heap,
                 xprice, thr, bvars, req, fillBuy, fillSell, fires, ax>>

\* cancel_order up to its test of the status.
CancelOrderCheck(orderid) ==
  /\ hnd.pc = "idle"
  /\ IF orderid \notin DOMAIN orders
     THEN UNCHANGED hnd                        \* "Order not found"
     ELSE IF orders[orderid].status # "pending"
          THEN UNCHANGED hnd                   \* "Cannot cancel completed order"
          ELSE hnd' = [IdleHandler EXCEPT !.pc = "cancel", !.orderid = orderid]
  /\ UNCHANGED <<orders, order_counter, trades, trade_counter, positions,
                 heap, xprice, thr, bvars, hvars>>

\* CancelOrderWrite putting the order back to pending.
CancelOrderWrite_Reopens ==
  /\ hnd.pc = "cancel"
  /\ orders' = [orders EXCEPT ![hnd.orderid].status = "pending"]
  /\ hnd' = IdleHandler
  /\ UNCHANGED <<order_counter, trades, trade_counter, positions, heap,
                 xprice, thr, bvars, hvars>>

\* cancel_order: order["status"] = "cancelled"
CancelOrderWrite ==
  /\ hnd.pc = "cancel"
  /\ orders' = [orders EXCEPT ![hnd.orderid].status = "cancelled"]
  /\ hnd' = IdleHandler
  /\ UNCHANGED <<order_counter, trades, trade_counter, positions, heap,
                 xprice, thr, bvars, hvars>>

\* _update_prices: one instrument's ltp moves.
UpdatePrices(token, p) ==
  /\ hnd.pc = "idle"
  /\ xprice[token] # p
  /\ xprice' = [xprice EXCEPT ![token] = p]
  /\ UNCHANGED <<orders, order_counter, trades, trade_counter, positions,
                 heap, thr, hnd, bvars, hvars>>

\* A client of the exchange's HTTP interface other than the bot.
ClientPlaceOrder(max, token, side, qty) ==
  /\ order_counter < max
  /\ place_order(token, side, qty, [by |-> "client", id |-> 0])
  /\ UNCHANGED <<bvars, modified, fillBuy, fillSell, fires, ax>>

(***************************************************************************)
(* Exchange: simulate_order_execution.process_order, the thread of order   *)
(* o.                                                                      *)
(***************************************************************************)
At(o, pc) == thr[o].pc = pc

Goto(o, pc) == thr' = [thr EXCEPT ![o].pc = pc]

ThreadFrame == UNCHANGED <<order_counter, hnd, bvars, req, modified, fires, ax>>

\* TradeData with the price stored where the quantity belongs.
TradeData_PriceAsQuantity(o, trade_id, execution_price) ==
  [tradeid |-> trade_id, orderid |-> o,
   transactiontype |-> orders[o].transactiontype,
   quantity |-> execution_price, price |-> execution_price,
   symboltoken |-> orders[o].symboltoken]

\* The trade record built from the order.
TradeData(o, trade_id, execution_price) ==
  [tradeid |-> trade_id, orderid |-> o,
   transactiontype |-> orders[o].transactiontype,
   quantity |-> orders[o].quantity, price |-> execution_price,
   symboltoken |-> orders[o].symboltoken]

\* BUY: new_net and the new average.
BuyNewNet(current_net, quantity) == current_net + quantity

\* BuyNewAvg without the weights.
BuyNewAvg_Unweighted(current_net, current_avg, quantity, execution_price) ==
  LET new_net == BuyNewNet(current_net, quantity) IN
  IF new_net > 0
  THEN Round2(current_avg + execution_price, 2)
  ELSE 0

\* new_avg, and round(new_avg, 2) of line 304.
BuyNewAvg(current_net, current_avg, quantity, execution_price) ==
  LET new_net == BuyNewNet(current_net, quantity) IN
  IF new_net > 0
  THEN Round2(current_net * current_avg + quantity * execution_price, new_net)
  ELSE 0

\* SellNewNet with the sign of the quantity wrong.
SellNewNet_Adds(current_net, quantity) == current_net + quantity

\* SELL: new_net.
SellNewNet(current_net, quantity) == current_net - quantity

\* P_Resolve leaving alone an order that is no longer pending.
P_Resolve_OnlyPending(o, success) ==
  /\ At(o, "sleep")
  /\ o \in DOMAIN orders
  /\ orders[o].status = "pending"
  /\ IF success
     THEN /\ orders' = [orders EXCEPT ![o].status = "complete"]
          /\ Goto(o, "ltp")
     ELSE /\ orders' = [orders EXCEPT ![o].status = "rejected"]
          /\ Goto(o, "done")
  /\ UNCHANGED <<trades, trade_counter, positions, heap, xprice, fillBuy, fillSell>>
  /\ ThreadFrame

\* The sleep is over: the order is looked up and resolved, complete or
\* rejected (random.random() < success_rate).
P_Resolve(o, success) ==
  /\ At(o, "sleep")
  /\ o \in DOMAIN orders
  /\ IF success
     THEN /\ orders' = [orders EXCEPT ![o].status = "complete"]
          /\ Goto(o, "ltp")
     ELSE /\ orders' = [orders EXCEPT ![o].status = "rejected"]
          /\ Goto(o, "done")
  /\ UNCHANGED <<trades, trade_counter, positions, heap, xprice, fillBuy, fillSell>>
  /\ ThreadFrame

\* P_ReadLtp with the price the instrument started from.
P_ReadLtp_OpeningPrice(o) ==
  /\ At(o, "ltp")
  /\ orders[o].ordertype = "MARKET"
  /\ thr' = [thr EXCEPT ![o].current_price = BasePrice(orders[o].symboltoken),
                        ![o].execution_price = BasePrice(orders[o].symboltoken),
                        ![o].pc = "setprice"]
  /\ UNCHANGED <<orders, trades, trade_counter, positions, heap, xprice, fillBuy, fillSell>>
  /\ ThreadFrame

\* current_price = price_data[token]["ltp"]; a MARKET order executes at it.
P_ReadLtp(o) ==
  /\ At(o, "ltp")
  /\ orders[o].ordertype = "MARKET"
  /\ thr' = [thr EXCEPT ![o].current_price = xprice[orders[o].symboltoken],
                        ![o].execution_price = xprice[orders[o].symboltoken],
                        ![o].pc = "setprice"]
  /\ UNCHANGED <<orders, trades, trade_counter, positions, heap, xprice, fillBuy, fillSell>>
  /\ ThreadFrame

\* order["price"] = str(execution_price)
P_SetPrice(o) ==
  /\ At(o, "setprice")
  /\ orders' = [orders EXCEPT ![o].price = thr[o].execution_price]
  /\ Goto(o, "tid_inc")
  /\ UNCHANGED <<trades, trade_counter, positions, heap, xprice, fillBuy, fillSell>>
  /\ ThreadFrame

\* generate_trade_id: self.trade_counter += 1
P_TradeIdInc(o) ==
  /\ At(o, "tid_inc")
  /\ trade_counter' = trade_counter + 1
  /\ Goto(o, "tid_ret")
  /\ UNCHANGED <<orders, trades, positions, heap, xprice, fillBuy, fillSell>>
  /\ ThreadFrame

\* generate_trade_id: return str(self.trade_counter)
P_TradeIdRet(o) ==
  /\ At(o, "tid_ret")
  /\ thr' = [thr EXCEPT ![o].trade_id = trade_counter, ![o].pc = "trade"]
  /\ UNCHANGED <<orders, trades, trade_counter, positions, heap, xprice, fillBuy, fillSell>>
  /\ ThreadFrame

\* mock_store.trades[trade_id] = trade_data
P_Trade(o) ==
  /\ At(o, "trade")
  /\ trades' = Put(trades, thr[o].trade_id,
                   TradeData(o, thr[o].trade_id, thr[o].execution_price))
  /\ Goto(o, "poscheck")
  /\ UNCHANGED <<orders, trade_counter, positions, heap, xprice, fillBuy, fillSell>>
  /\ ThreadFrame

\* if position_key not in mock_store.positions
P_PosCheck(o) ==
  /\ At(o, "poscheck")
  /\ thr' = [thr EXCEPT ![o].create = (positions[orders[o].symboltoken] = 0),
                        ![o].pc = IF positions[orders[o].symboltoken] = 0
                                  THEN "poscreate" ELSE "posref"]
  /\ UNCHANGED <<orders, trades, trade_counter, positions, heap, xprice, fillBuy, fillSell>>
  /\ ThreadFrame

\* mock_store.positions[position_key] = {...}: a new dict, named after the
\* order whose thread makes it; the dict it replaces, if any, lives on only
\* in the threads that already hold it.
P_PosCreate(o) ==
  /\ At(o, "poscreate")
  /\ positions' = [positions EXCEPT ![orders[o].symboltoken] = o]
  /\ thr' = [thr EXCEPT ![o].create = FALSE, ![o].pc = "posref"]
  /\ heap' = Live(Put(heap, o, NewPosition(thr[o].current_price)), positions', thr')
  /\ UNCHANGED <<orders, trades, trade_counter, xprice, fillBuy, fillSell>>
  /\ ThreadFrame

\* position = mock_store.positions[position_key]
\* quantity = int(order["quantity"])
P_PosRef(o) ==
  /\ At(o, "posref")
  /\ thr' = [thr EXCEPT ![o].position = positions[orders[o].symboltoken],
                        ![o].quantity = orders[o].quantity,
                        ![o].pc = "readnet"]
  /\ UNCHANGED <<orders, trades, trade_counter, positions, heap, xprice, fillBuy, fillSell>>
  /\ ThreadFrame

\* current_net = int(position["netqty"]); a SELL computes new_net from it.
P_ReadNet(o) ==
  /\ At(o, "readnet")
  /\ LET current_net == heap[thr[o].position].netqty IN
     IF orders[o].transactiontype = "BUY"
     THEN thr' = [thr EXCEPT ![o].current_net = current_net, ![o].pc = "readavg"]
     ELSE thr' = [thr EXCEPT ![o].current_net = current_net,
                             ![o].new_net = SellNewNet(current_net, thr[o].quantity),
                             ![o].pc = "wnet"]
  /\ UNCHANGED <<orders, trades, trade_counter, positions, heap, xprice, fillBuy, fillSell>>
  /\ ThreadFrame

\* BUY: current_avg = float(position["avgprice"]); new_net; new_avg
P_ReadAvg(o) ==
  /\ At(o, "readavg")
  /\ LET current_avg == heap[thr[o].position].avgprice IN
     thr' = [thr EXCEPT ![o].current_avg = current_avg,
                        ![o].new_net = BuyNewNet(thr[o].current_net, thr[o].quantity),
                        ![o].new_avg = BuyNewAvg(thr[o].current_net, current_avg,
                                                 thr[o].quantity, thr[o].execution_price),
                        ![o].pc = "wnet"]
  /\ UNCHANGED <<orders, trades, trade_counter, positions, heap, xprice, fillBuy, fillSell>>
  /\ ThreadFrame

\* position["netqty"] = str(new_net)
P_WriteNet(o) ==
  /\ At(o, "wnet")
  /\ heap' = [heap EXCEPT ![thr[o].position].netqty = thr[o].new_net]
  /\ Goto(o, IF orders[o].transactiontype = "BUY" THEN "wavg" ELSE "sellqty")
  /\ UNCHANGED <<orders, trades, trade_counter, positions, xprice, fillBuy, fillSell>>
  /\ ThreadFrame

\* BUY: position["avgprice"] = str(round(new_avg, 2))
P_WriteAvg(o) ==
  /\ At(o, "wavg")
  /\ heap' = [heap EXCEPT ![thr[o].position].avgprice = thr[o].new_avg]
  /\ Goto(o, "buyqty")
  /\ UNCHANGED <<orders, trades, trade_counter, positions, xprice, fillBuy, fillSell>>
  /\ ThreadFrame

\* BUY: position["buyqty"] = str(int(position["buyqty"]) + quantity)
P_BuyQty(o) ==
  /\ At(o, "buyqty")
  /\ heap' = [heap EXCEPT ![thr[o].position].buyqty = @ + thr[o].quantity]
  /\ Goto(o, "pnl_if")
  /\ UNCHANGED <<orders, trades, trade_counter, positions, xprice, fillBuy, fillSell>>
  /\ ThreadFrame

\* SELL: position["sellqty"] = str(int(position["sellqty"]) + quantity)
P_SellQty(o) ==
  /\ At(o, "sellqty")
  /\ heap' = [heap EXCEPT ![thr[o].position].sellqty = @ + thr[o].quantity]
  /\ Goto(o, IF thr[o].new_net = 0 THEN "wavg0" ELSE "pnl_if")
  /\ UNCHANGED <<orders, trades, trade_counter, positions, xprice, fillBuy, fillSell>>
  /\ ThreadFrame

\* P_SellAvg0 leaving the average price as it is.
P_SellAvg0_KeepsAverage(o) ==
  /\ At(o, "wavg0")
  /\ Goto(o, "pnl_if")
  /\ UNCHANGED <<orders, trades, trade_counter, positions, heap, xprice, fillBuy, fillSell>>
  /\ ThreadFrame

\* SELL: if new_net == 0: position["avgprice"] = "0"
P_SellAvg0(o) ==
  /\ At(o, "wavg0")
  /\ heap' = [heap EXCEPT ![thr[o].position].avgprice = 0]
  /\ Goto(o, "pnl_if")
  /\ UNCHANGED <<orders, trades, trade_counter, positions, xprice, fillBuy, fillSell>>
  /\ ThreadFrame

\* if int(position["netqty"]) != 0
P_PnlIf(o) ==
  /\ At(o, "pnl_if")
  /\ Goto(o, IF heap[thr[o].position].netqty # 0 THEN "pnl_avg" ELSE "pnl_zero")
  /\ UNCHANGED <<orders, trades, trade_counter, positions, heap, xprice, fillBuy, fillSell>>
  /\ ThreadFrame

\* avg_price = float(position["avgprice"])
P_PnlAvg(o) ==
  /\ At(o, "pnl_avg")
  /\ thr' = [thr EXCEPT ![o].avg_price = heap[thr[o].position].avgprice,
                        ![o].pc = "pnl"]
  /\ UNCHANGED <<orders, trades, trade_counter, positions, heap, xprice, fillBuy, fillSell>>
  /\ ThreadFrame

\* P_Pnl with the net quantity the fill started from.
P_Pnl_OldNet(o) ==
  /\ At(o, "pnl")
  /\ heap' = [heap EXCEPT ![thr[o].position].pnl =
                 (thr[o].current_price - thr[o].avg_price) * thr[o].current_net]
  /\ Goto(o, "wltp")
  /\ UNCHANGED <<orders, trades, trade_counter, positions, xprice, fillBuy, fillSell>>
  /\ ThreadFrame

\* pnl = (current_price - avg_price) * int(position["netqty"])
\* position["pnl"] = str(round(pnl, 2))
P_Pnl(o) ==
  /\ At(o, "pnl")
  /\ heap' = [heap EXCEPT ![thr[o].position].pnl =
                 (thr[o].current_price - thr[o].avg_price) * heap[thr[o].position].netqty]
  /\ Goto(o, "wltp")
  /\ UNCHANGED <<orders, trades, trade_counter, positions, xprice, fillBuy, fillSell>>
  /\ ThreadFrame

\* else: position["pnl"] = "0"
P_PnlZero(o) ==
  /\ At(o, "pnl_zero")
  /\ heap' = [heap EXCEPT ![thr[o].position].pnl = 0]
  /\ Goto(o, "wltp")
  /\ UNCHANGED <<orders, trades, trade_counter, positions, xprice, fillBuy, fillSell>>
  /\ ThreadFrame

\* position["ltp"] = str(current_price); the thread ends.  The fill is now
\* applied in full and enters the history.
P_WriteLtp(o) ==
  LET token == orders[o].symboltoken IN
  /\ At(o, "wltp")
  /\ thr' = [thr EXCEPT ![o] = [NoThread EXCEPT !.pc = "done"]]
  /\ heap' = Live([heap EXCEPT ![thr[o].position].ltp = thr[o].current_price],
                  positions, thr')
  /\ IF orders[o].transactiontype = "BUY"
     THEN /\ fillBuy' = [fillBuy EXCEPT ![token] = @ + thr[o].quantity]
          /\ UNCHANGED fillSell
     ELSE /\ fillSell' = [fillSell EXCEPT ![token] = @ + thr[o].quantity]
          /\ UNCHANGED fillBuy
  /\ UNCHANGED <<orders, trades, trade_counter, positions, xprice>>
  /\ ThreadFrame

\* The steps of a thread that has resolved its order to complete.
P_Fill(o) ==
  \/ P_ReadLtp(o) \/ P_SetPrice(o)
  \/ P_TradeIdInc(o) \/ P_TradeIdRet(o) \/ P_Trade(o)
  \/ P_PosCheck(o) \/ P_PosCreate(o) \/ P_PosRef(o)
  \/ P_ReadNet(o) \/ P_ReadAvg(o) \/ P_WriteNet(o) \/ P_WriteAvg(o)
  \/ P_BuyQty(o) \/ P_SellQty(o) \/ P_SellAvg0(o)
  \/ P_PnlIf(o) \/ P_PnlAvg(o) \/ P_Pnl(o) \/ P_PnlZero(o) \/ P_WriteLtp(o)

\* No thread is between its resolution and its end.
NoFillInProgress == \A o \in OrderIds : thr[o].pc \in {"none", "sleep", "done"}

\* What lines 290-327 make of a position when no other thread touches it
\* meanwhile.
ApplyFill(position, side, quantity, execution_price, current_price) ==
  LET current_net == position.netqty
      updated ==
        IF side = "BUY"
        THEN [position EXCEPT
                !.netqty = BuyNewNet(current_net, quantity),
                !.avgprice = BuyNewAvg(current_net, position.avgprice,
                                       quantity, execution_price),
                !.buyqty = @ + quantity]
        ELSE [position EXCEPT
                !.netqty = SellNewNet(current_net, quantity),
                !.sellqty = @ + quantity,
                !.avgprice = IF SellNewNet(current_net, quantity) = 0 THEN 0 ELSE @]
  IN  [updated EXCEPT
         !.pnl = IF updated.netqty # 0
                 THEN (current_price - updated.avgprice) * updated.netqty
                 ELSE 0,
         !.ltp = current_price]

\* The thread of order o from the end of its sleep to its own end, run
\* without another thread or handler in between.
process_order(o, success) ==
  LET token == orders[o].symboltoken
      current_price == xprice[token]
      trade_id == trade_counter + 1
      ref == IF positions[token] = 0 THEN o ELSE positions[token]
      position == IF positions[token] = 0
                  THEN NewPosition(current_price) ELSE heap[positions[token]]
      quantity == orders[o].quantity
  IN
  /\ At(o, "sleep")
  /\ o \in DOMAIN orders
  /\ NoFillInProgress
  /\ thr' = [thr EXCEPT ![o] = [NoThread EXCEPT !.pc = "done"]]
  /\ IF success
     THEN /\ orders' = [orders EXCEPT ![o].status = "complete",
                                      ![o].price = current_price]
          /\ trade_counter' = trade_id
          /\ trades' = Put(trades, trade_id, TradeData(o, trade_id, current_price))
          /\ positions' = [positions EXCEPT ![token] = ref]
          /\ heap' = Live(Put(heap, ref,
                              ApplyFill(position, orders[o].transactiontype,
                                        quantity, current_price, current_price)),
                          positions', thr')
          /\ IF orders[o].transactiontype = "BUY"
             THEN /\ fillBuy' = [fillBuy EXCEPT ![token] = @ + quantity]
                  /\ UNCHANGED fillSell
             ELSE /\ fillSell' = [fillSell EXCEPT ![token] = @ + quantity]
                  /\ UNCHANGED fillBuy
     ELSE /\ orders' = [orders EXCEPT ![o].status = "rejected"]
          /\ UNCHANGED <<trades, trade_counter, positions, heap, fillBuy, fillSell>>
  /\ UNCHANGED xprice
  /\ ThreadFrame

(***************************************************************************)
(* Initial state: MockDataStore.__init__ and TradingBotState.__init__.     *)
(***************************************************************************)
IdleTask == [pc |-> "idle"]

NoAutoExit ==
  [state |-> "never", snap |-> [t \in Tokens |-> 0], orders |-> {}, failed |-> FALSE,
   wake |-> 0]

Init ==
  /\ orders = << >>
  /\ order_counter = 0
  /\ trades = << >>
  /\ trade_counter = 0
  /\ positions = [t \in Tokens |-> 0]
  /\ heap = << >>
  /\ xprice = [t \in Tokens |-> BasePrice(t)]
  /\ thr = [o \in OrderIds |-> NoThread]
  /\ hnd = IdleHandler
  /\ authenticated = FALSE
  /\ bot_active = TRUE
  /\ active_orders = << >>
  /\ price_data = [t \in BotTokens |-> 0]
  /\ uuid_counter = 0
  /\ now = AUTO_EXIT_TIME - 5
  /\ task = IdleTask
  /\ req = << >>
  /\ modified = {}
  /\ fillBuy = [t \in Tokens |-> 0]
  /\ fillSell = [t \in Tokens |-> 0]
  /\ fires = << >>
  /\ ax = NoAutoExit

(***************************************************************************)
(* Bot: the calls it makes to the exchange.  `ok` is whether the HTTP      *)
(* requests of the call get their answers; a request that raises, or an    *)
(* answer other than 200, ends the call in an exception.                   *)
(***************************************************************************)
IdleBot == task.pc = "idle"

\* get_symbol_token: the scrip master is loaded by login, empty before.
get_symbol_token(token) == authenticated /\ token \in BotTokens

\* SellQuantity selling one unit of the position.
SellQuantity_One(token) ==
  IF {pos \in get_positions : pos.symboltoken = token /\ pos.netqty > 0} = {}
  THEN 0 ELSE 1

\* execute_market_order, lines 301-306: the quantity of a SELL requested
\* with quantity 0 is the netqty of the first position of the instrument
\* with netqty > 0; 0 when there is none.
SellQuantity(token) ==
  LET held == {pos \in get_positions : pos.symboltoken = token /\ pos.netqty > 0}
  IN  IF held = {} THEN 0 ELSE (CHOOSE pos \in held : TRUE).netqty

\* The quantity execute_market_order sends.
OrderQuantity(token, side, quantity) ==
  IF side = "SELL" /\ quantity = 0 THEN SellQuantity(token) ELSE quantity

\* MarketOrderFails without the test of line 308.
MarketOrderFails_SendsZero(token, side, quantity, ok) ==
  \/ ~authenticated
  \/ ~ok

\* execute_market_order raises instead of returning an order id.
MarketOrderFails(token, side, quantity, ok) ==
  \/ ~authenticated                               \* get_headers: 401
  \/ ~ok
  \/ OrderQuantity(token, side, quantity) = 0     \* "No position found to sell"

\* execute_market_order: either it raises and the exchange is untouched, or
\* place_order is called (and may still refuse the token).
execute_market_order(token, side, quantity, origin, ok) ==
  IF MarketOrderFails(token, side, quantity, ok)
  THEN UNCHANGED <<xvars, req>>
  ELSE place_order(token, side, OrderQuantity(token, side, quantity), origin)

(***************************************************************************)
(* Bot: HTTP endpoints.                                                    *)
(***************************************************************************)
BotFrame == UNCHANGED <<modified, fillBuy, fillSell>>

\* login: authenticated, and the scrip master loaded.
Login ==
  /\ IdleBot
  /\ ~authenticated
  /\ authenticated' = TRUE
  /\ UNCHANGED <<xvars, bot_active, active_orders, price_data, uuid_counter,
                 now, task, hvars>>

\* start_bot
StartBot ==
  /\ IdleBot
  /\ bot_active' = TRUE
  /\ ax' = [ax EXCEPT !.state = IF @ = "done" THEN "rearmed" ELSE @]
  /\ UNCHANGED <<xvars, authenticated, active_orders, price_data, uuid_counter,
                 now, task, req, modified, fillBuy, fillSell, fires>>

\* stop_bot
StopBot ==
  /\ IdleBot
  /\ bot_active' = FALSE
  /\ active_orders' = << >>
  /\ UNCHANGED <<xvars, authenticated, price_data, uuid_counter, now, task, hvars>>

\* check_buy_trigger with the candle analysis answering True.
check_buy_trigger_CandleFires(trigger, current_price) ==
  CASE trigger.order_type = "points_trigger" ->
         /\ trigger.points # None
         /\ current_price >= trigger.initial_price + trigger.points
    [] trigger.order_type = "percentage_trigger" ->
         /\ trigger.percentage # None
         /\ current_price * 100 >= trigger.initial_price * (100 + trigger.percentage)
    [] OTHER -> TRUE

\* check_buy_trigger with > for >=.
check_buy_trigger_Above(trigger, current_price) ==
  CASE trigger.order_type = "points_trigger" ->
         /\ trigger.points # None
         /\ current_price > trigger.initial_price + trigger.points
    [] trigger.order_type = "percentage_trigger" ->
         /\ trigger.percentage # None
         /\ current_price * 100 > trigger.initial_price * (100 + trigger.percentage)
    [] OTHER -> FALSE

\* check_buy_trigger; a missing parameter (None) raises inside and gives
\* False.  Points are in hundredths, percentages in percent.
check_buy_trigger(trigger, current_price) ==
  CASE trigger.order_type = "points_trigger" ->
         /\ trigger.points # None
         /\ current_price >= trigger.initial_price + trigger.points
    [] trigger.order_type = "percentage_trigger" ->
         /\ trigger.percentage # None
         /\ current_price * 100 >= trigger.initial_price * (100 + trigger.percentage)
    [] OTHER -> FALSE                       \* candle_trigger: placeholder

\* A price at which the condition of an entry trigger is met.
Qualifies(trigger, p) ==
  /\ trigger.type = "buy_trigger"
  /\ p # 0
  /\ check_buy_trigger(trigger, p)

\* Before created_at + ORDER_TIMEOUT_MINUTES.
InWindow(trigger, time) == time < trigger.created_at + ORDER_TIMEOUT_MINUTES

\* The feed delivers a last-traded price to bot_state.price_data.  The
\* history notes the triggers it qualifies within their window.
PriceFeed(token, p) ==
  /\ IdleBot
  /\ price_data[token] # p
  /\ price_data' = [price_data EXCEPT ![token] = p]
  /\ fires' = [id \in DOMAIN fires |->
                 IF /\ id \in DOMAIN active_orders
                    /\ active_orders[id].symbol_token = token
                    /\ Qualifies(active_orders[id], p)
                    /\ InWindow(active_orders[id], now)
                 THEN [fires[id] EXCEPT !.early = TRUE]
                 ELSE fires[id]]
  /\ UNCHANGED <<xvars, authenticated, bot_active, active_orders, uuid_counter,
                 now, task, req, modified, fillBuy, fillSell, ax>>

\* datetime.now() moves on.
ClockStep == 5

AdvanceClock ==
  /\ IdleBot
  /\ now < AUTO_EXIT_TIME - ClockStep + ClockStep * MaxClockSteps
  /\ now' = now + ClockStep
  /\ UNCHANGED <<xvars, authenticated, bot_active, active_orders, price_data,
                 uuid_counter, task, hvars>>

\* place_buy_order, order_type LIVE_PRICE: an immediate market order.
PlaceBuyOrderLive(token, quantity, ok) ==
  /\ IdleBot
  /\ get_symbol_token(token)
  /\ execute_market_order(token, "BUY", quantity, [by |-> "live", id |-> 0], ok)
  /\ UNCHANGED <<bvars, fires, ax>>
  /\ BotFrame

\* The trigger place_buy_order stores.
BuyTrigger(token, quantity, order_type, trade_mode, points, percentage) ==
  [type |-> "buy_trigger", symbol_token |-> token, quantity |-> quantity,
   order_type |-> order_type, trade_mode |-> trade_mode, points |-> points,
   percentage |-> percentage, initial_price |-> price_data[token],
   created_at |-> now, status |-> "active"]

\* PlaceBuyTrigger handing out the least id that is not in the registry, an
\* id of a removed trigger included.
PlaceBuyTrigger_ReusesId(token, quantity, order_type, trade_mode, points, percentage) ==
  LET free == (1..MaxTriggers) \ DOMAIN active_orders
      trigger_id == CHOOSE i \in free : \A j \in free : i <= j
  IN
  /\ IdleBot
  /\ get_symbol_token(token)
  /\ free # {}
  /\ uuid_counter' = IF trigger_id > uuid_counter THEN trigger_id ELSE uuid_counter
  /\ active_orders' = Put(active_orders, trigger_id,
        BuyTrigger(token, quantity, order_type, trade_mode, points, percentage))
  /\ fires' = Put(fires, trigger_id,
                  [single |-> (trade_mode = "single"), count |-> 0,
                   early |-> Qualifies(active_orders'[trigger_id], price_data[token]),
                   held |-> 0])
  /\ UNCHANGED <<xvars, authenticated, bot_active, price_data, now, task,
                 req, modified, fillBuy, fillSell, ax>>

\* place_buy_order, any other order_type: a trigger under a fresh uuid.
PlaceBuyTrigger(token, quantity, order_type, trade_mode, points, percentage) ==
  LET trigger_id == uuid_counter + 1 IN
  /\ IdleBot
  /\ get_symbol_token(token)
  /\ uuid_counter < MaxTriggers
  /\ uuid_counter' = trigger_id
  /\ active_orders' = Put(active_orders, trigger_id,
        BuyTrigger(token, quantity, order_type, trade_mode, points, percentage))
  /\ fires' = Put(fires, trigger_id,
                  [single |-> (trade_mode = "single"), count |-> 0,
                   early |-> Qualifies(active_orders'[trigger_id], price_data[token]),
                   held |-> 0])
  /\ UNCHANGED <<xvars, authenticated, bot_active, price_data, now, task,
                 req, modified, fillBuy, fillSell, ax>>

\* place_sell_order, sell_type MANUAL_EXIT: an immediate market sell of the
\* position.
PlaceSellManual(token, ok) ==
  /\ IdleBot
  /\ get_symbol_token(token)
  /\ execute_market_order(token, "SELL", 0, [by |-> "manual", id |-> 0], ok)
  /\ UNCHANGED <<bvars, fires, ax>>
  /\ BotFrame

\* The trigger place_sell_order stores.
SellTrigger(token, sell_type, points, percentage) ==
  [type |-> "sell_trigger", symbol_token |-> token, sell_type |-> sell_type,
   points |-> points, percentage |-> percentage,
   created_at |-> now, status |-> "active"]

\* place_sell_order, any other sell_type: a trigger under a fresh uuid.
PlaceSellTrigger(token, sell_type, points, percentage) ==
  LET trigger_id == uuid_counter + 1 IN
  /\ IdleBot
  /\ get_symbol_token(token)
  /\ uuid_counter < MaxTriggers
  /\ uuid_counter' = trigger_id
  /\ active_orders' = Put(active_orders, trigger_id,
                          SellTrigger(token, sell_type, points, percentage))
  /\ fires' = Put(fires, trigger_id,
                  [single |-> FALSE, count |-> 0, early |-> FALSE,
                   held |-> SellQuantity(token)])
  /\ UNCHANGED <<xvars, authenticated, bot_active, price_data, now, task,
                 req, modified, fillBuy, fillSell, ax>>

\* Del emptying the dict.
Del_All(d, ks) == << >>

\* del d[k]
Del(d, ks) == [x \in DOMAIN d \ ks |-> d[x]]

\* cancel_trigger: the status of its answer, 404 for an id that is not in
\* the registry.
cancel_trigger_status(trigger_id) ==
  IF trigger_id \in DOMAIN active_orders THEN 200 ELSE 404

\* cancel_trigger
CancelTrigger(trigger_id) ==
  /\ IdleBot
  /\ IF trigger_id \in DOMAIN active_orders
     THEN active_orders' = Del(active_orders, {trigger_id})
     ELSE UNCHANGED active_orders
  /\ UNCHANGED <<xvars, authenticated, bot_active, price_data, uuid_counter,
                 now, task, hvars>>

(***************************************************************************)
(* Bot: trigger_monitor.  One pass of its loop is a tick.                  *)
(***************************************************************************)
\* The registry's keys in iteration order: a dict iterates in insertion
\* order, and ids are handed out in increasing order.
RECURSIVE InOrder(_)
InOrder(ids) ==
  IF ids = {} THEN << >>
  ELSE LET least == CHOOSE i \in ids : \A j \in ids : i <= j
       IN  <<least>> \o InOrder(ids \ {least})

\* TimedOut with twice the window.
TimedOut_TwiceTheWindow(trigger, current_time) ==
  (current_time - trigger.created_at) * 60 > 2 * ORDER_TIMEOUT_MINUTES * 60

\* (current_time - created_at).total_seconds() > ORDER_TIMEOUT_MINUTES * 60
TimedOut(trigger, current_time) ==
  (current_time - trigger.created_at) * 60 > ORDER_TIMEOUT_MINUTES * 60

\* check_sell_trigger lines 604-609: avgprice of the first position of the
\* instrument, 0 when there is none.
EntryPrice(token) ==
  LET held == {pos \in get_positions : pos.symboltoken = token}
  IN  IF held = {} THEN 0 ELSE (CHOOSE pos \in held : TRUE).avgprice

\* check_sell_trigger with < for <=.
check_sell_trigger_Below(trigger, current_price, ok) ==
  /\ authenticated /\ ok
  /\ EntryPrice(trigger.symbol_token) # 0
  /\ CASE trigger.sell_type = "points_stop" ->
            /\ trigger.points # None
            /\ current_price < EntryPrice(trigger.symbol_token) - trigger.points
       [] trigger.sell_type = "percentage_stop" ->
            /\ trigger.percentage # None
            /\ current_price * 100
                 < EntryPrice(trigger.symbol_token) * (100 - trigger.percentage)
       [] OTHER -> FALSE

\* check_sell_trigger; a failed get_positions or a missing parameter raises
\* inside and gives False.
check_sell_trigger(trigger, current_price, ok) ==
  /\ authenticated /\ ok
  /\ EntryPrice(trigger.symbol_token) # 0
  /\ CASE trigger.sell_type = "points_stop" ->
            /\ trigger.points # None
            /\ current_price <= EntryPrice(trigger.symbol_token) - trigger.points
       [] trigger.sell_type = "percentage_stop" ->
            /\ trigger.percentage # None
            /\ current_price * 100
                 <= EntryPrice(trigger.symbol_token) * (100 - trigger.percentage)
       [] OTHER -> FALSE                    \* candle_stop: placeholder

\* The loop goes on to the next trigger; after the last one the triggers
\* collected in triggers_to_remove are deleted and the task sleeps.
TickContinue(rest, remove) ==
  IF rest = << >>
  THEN /\ active_orders' = Del(active_orders, remove)
       /\ task' = IdleTask
  ELSE /\ task' = [pc |-> "tick", current_time |-> task.current_time,
                   queue |-> rest, remove |-> remove]
       /\ UNCHANGED active_orders

\* RemoveAfterFire keeping every trigger.
RemoveAfterFire_Never(trigger_id, trigger, remove) == remove

\* RemoveAfterFire collecting every trigger that fired.
RemoveAfterFire_Always(trigger_id, trigger, remove) == remove \cup {trigger_id}

\* Lines 557-558: a single-mode trigger that fired is collected for removal.
RemoveAfterFire(trigger_id, trigger, remove) ==
  IF trigger.trade_mode = "single" THEN remove \cup {trigger_id} ELSE remove

\* TickStart without the test of bot_active.
TickStart_IgnoresBotActive ==
  /\ IdleBot
  /\ IF DOMAIN active_orders # {}
     THEN task' = [pc |-> "tick", current_time |-> now,
                   queue |-> InOrder(DOMAIN active_orders), remove |-> {}]
     ELSE UNCHANGED task
  /\ UNCHANGED <<xvars, authenticated, bot_active, active_orders, price_data,
                 uuid_counter, now, hvars>>

\* The pass begins: nothing to do while the bot is not active; otherwise
\* current_time is read and the loop over the registry starts.
TickStart ==
  /\ IdleBot
  /\ IF bot_active /\ DOMAIN active_orders # {}
     THEN task' = [pc |-> "tick", current_time |-> now,
                   queue |-> InOrder(DOMAIN active_orders), remove |-> {}]
     ELSE UNCHANGED task
  /\ UNCHANGED <<xvars, authenticated, bot_active, active_orders, price_data,
                 uuid_counter, now, hvars>>

\* A trigger that has timed out is collected for removal; one whose
\* instrument has no price yet is passed over.
TickSkip ==
  /\ task.pc = "tick"
  /\ LET trigger_id == Head(task.queue)
         trigger == active_orders[trigger_id]
     IN  IF TimedOut(trigger, task.current_time)
         THEN TickContinue(Tail(task.queue), task.remove \cup {trigger_id})
         ELSE /\ price_data[trigger.symbol_token] = 0
              /\ TickContinue(Tail(task.queue), task.remove)
  /\ UNCHANGED <<xvars, authenticated, bot_active, price_data, uuid_counter,
                 now, hvars>>

\* Evaluated without the test of current_price == 0.
Evaluated_AtNoPrice(trigger) == ~TimedOut(trigger, task.current_time)

\* The trigger is evaluated at current_price.
Evaluated(trigger) ==
  /\ ~TimedOut(trigger, task.current_time)
  /\ price_data[trigger.symbol_token] # 0

\* A buy trigger is evaluated; when its condition holds, execute_trigger
\* sends the market order, and a single-mode trigger is collected for
\* removal.
TickBuy(ok) ==
  /\ task.pc = "tick"
  /\ LET trigger_id == Head(task.queue)
         trigger == active_orders[trigger_id]
     IN  /\ trigger.type = "buy_trigger"
         /\ Evaluated(trigger)
         /\ IF check_buy_trigger(trigger, price_data[trigger.symbol_token])
            THEN /\ fires[trigger_id].count < MaxFires
                 /\ fires' = [fires EXCEPT ![trigger_id].count = @ + 1]
                 /\ execute_market_order(trigger.symbol_token, "BUY", trigger.quantity,
                                         [by |-> "trigger", id |-> trigger_id], ok)
                 /\ TickContinue(Tail(task.queue),
                                 RemoveAfterFire(trigger_id, trigger, task.remove))
            ELSE /\ TickContinue(Tail(task.queue), task.remove)
                 /\ UNCHANGED <<xvars, req, fires>>
  /\ UNCHANGED <<authenticated, bot_active, price_data, uuid_counter, now, ax>>
  /\ BotFrame

\* A sell trigger is evaluated: check_sell_trigger asks the exchange for the
\* positions.
TickSellCheck(ok) ==
  /\ task.pc = "tick"
  /\ LET trigger_id == Head(task.queue)
         trigger == active_orders[trigger_id]
     IN  /\ trigger.type = "sell_trigger"
         /\ Evaluated(trigger)
         /\ IF check_sell_trigger(trigger, price_data[trigger.symbol_token], ok)
            THEN /\ task' = [task EXCEPT !.pc = "fire_sell"]
                 /\ UNCHANGED active_orders
            ELSE TickContinue(Tail(task.queue), task.remove)
  /\ UNCHANGED <<xvars, authenticated, bot_active, price_data, uuid_counter,
                 now, hvars>>

\* TickSellFire with execute_trigger letting the error of a failed order out:
\* the handler of line 572 ends the pass where it is.
TickSellFire_Raises(ok) ==
  /\ task.pc = "fire_sell"
  /\ LET trigger_id == Head(task.queue)
         trigger == active_orders[trigger_id]
     IN  /\ fires[trigger_id].count < MaxFires
         /\ fires' = [fires EXCEPT ![trigger_id].count = @ + 1]
         /\ execute_market_order(trigger.symbol_token, "SELL", 0,
                                 [by |-> "trigger", id |-> trigger_id], ok)
         /\ IF MarketOrderFails(trigger.symbol_token, "SELL", 0, ok)
            THEN task' = IdleTask /\ UNCHANGED active_orders
            ELSE TickContinue(Tail(task.queue), task.remove \cup {trigger_id})
  /\ UNCHANGED <<authenticated, bot_active, price_data, uuid_counter, now, ax>>
  /\ BotFrame

\* The sell trigger's condition held: execute_trigger asks the exchange for
\* the positions again and sends the market order; the trigger is
\* collected for removal.
TickSellFire(ok) ==
  /\ task.pc = "fire_sell"
  /\ LET trigger_id == Head(task.queue)
         trigger == active_orders[trigger_id]
     IN  /\ fires[trigger_id].count < MaxFires
         /\ fires' = [fires EXCEPT ![trigger_id].count = @ + 1]
         /\ execute_market_order(trigger.symbol_token, "SELL", 0,
                                 [by |-> "trigger", id |-> trigger_id], ok)
         /\ TickContinue(Tail(task.queue), task.remove \cup {trigger_id})
  /\ UNCHANGED <<authenticated, bot_active, price_data, uuid_counter, now, ax>>
  /\ BotFrame

(***************************************************************************)
(* Bot: auto_exit_monitor.                                                 *)
(***************************************************************************)
\* await asyncio.sleep(300) after a run, in minutes.
AutoExitSleep == 5

\* AutoExitFinish leaving the bot active.
AutoExitFinish_StaysActive(run) ==
  /\ UNCHANGED bot_active
  /\ active_orders' = << >>
  /\ task' = IdleTask
  /\ ax' = [run EXCEPT !.state = "done", !.wake = now + AutoExitSleep]

\* Lines 679-684: the bot is stopped and the registry cleared, and the
\* monitor sleeps until ax.wake.
AutoExitFinish(run) ==
  /\ bot_active' = FALSE
  /\ active_orders' = << >>
  /\ task' = IdleTask
  /\ ax' = [run EXCEPT !.state = "done", !.wake = now + AutoExitSleep]

\* The instruments auto_exit_monitor closes: those of the positions with
\* int(pos["netqty"]) > 0.
ToClose(snapshot) == {pos.symboltoken : pos \in {q \in snapshot : q.netqty > 0}}

\* The check of the time; at or after AUTO_EXIT_TIME with the bot active the
\* positions are fetched.  When get_positions raises, the handler of line
\* 688 logs and the monitor sleeps.
AutoExitStart(ok) ==
  /\ IdleBot
  /\ now >= ax.wake
  /\ now >= AUTO_EXIT_TIME /\ bot_active
  /\ IF authenticated /\ ok
     THEN LET snapshot == get_positions
              run == [state |-> "running",
                      snap |-> [t \in Tokens |->
                                  IF HasPosition(t) THEN PositionOf(t).netqty ELSE 0],
                      orders |-> {}, failed |-> FALSE, wake |-> ax.wake]
          IN  IF ToClose(snapshot) = {}
              THEN AutoExitFinish(run)
              ELSE /\ task' = [pc |-> "auto_exit", queue |-> ToClose(snapshot)]
                   /\ ax' = run
                   /\ UNCHANGED <<bot_active, active_orders>>
     ELSE UNCHANGED <<bot_active, active_orders, task, ax>>
  /\ UNCHANGED <<xvars, authenticated, price_data, uuid_counter, now,
                 req, modified, fillBuy, fillSell, fires>>

\* One position of the list: execute_market_order(quantity=0, "SELL"); an
\* exception is logged (line 676) and the loop goes on.  After the last one
\* the bot is stopped.
AutoExitClose(token, ok) ==
  /\ task.pc = "auto_exit"
  /\ token \in task.queue
  /\ execute_market_order(token, "SELL", 0, [by |-> "auto_exit", id |-> 0], ok)
  /\ LET run == [ax EXCEPT !.orders = @ \cup (DOMAIN orders' \ DOMAIN orders),
                           !.failed = @ \/ (DOMAIN orders' = DOMAIN orders)]
     IN  IF task.queue = {token}
         THEN AutoExitFinish(run)
         ELSE /\ task' = [task EXCEPT !.queue = @ \ {token}]
              /\ ax' = run
              /\ UNCHANGED <<bot_active, active_orders>>
  /\ UNCHANGED <<authenticated, price_data, uuid_counter, now, fires>>
  /\ BotFrame

(***************************************************************************)
(* The exchange driven through its HTTP interface by clients; the bot is   *)
(* not logged in.                                                          *)
(***************************************************************************)
FeedNext == \E t \in Tokens : \E p \in Prices(t) : UpdatePrices(t, p)

ThreadNext ==
  \/ \E o \in OrderIds, success \in BOOLEAN : P_Resolve(o, success)
  \/ \E o \in OrderIds : P_Fill(o)

\* The threads run concurrently.
NextLedger ==
  \/ \E t \in Tokens, s \in Sides, q \in Quantities :
       ClientPlaceOrder(MaxClientOrders, t, s, q)
  \/ FeedNext
  \/ ThreadNext

SpecLedger == Init /\ [][NextLedger]_vars

\* The fills are applied one after another: no thread wakes up while
\* another one is applying its fill.
SerialFills ==
  \/ \E o \in OrderIds, success \in BOOLEAN : NoFillInProgress /\ P_Resolve(o, success)
  \/ \E o \in OrderIds : P_Fill(o)

NextSerial ==
  \/ \E t \in Tokens, s \in Sides, q \in Quantities :
       ClientPlaceOrder(MaxClientOrders, t, s, q)
  \/ FeedNext
  \/ SerialFills

SpecSerial == Init /\ [][NextSerial]_vars

\* Orders on one instrument, all submitted while its price is the one it
\* started from; the price moves while they wait.
NextFill ==
  \/ \E s \in Sides, q \in Quantities :
       /\ xprice["3045"] = BasePrice("3045")
       /\ ClientPlaceOrder(MaxClientOrders, "3045", s, q)
  \/ \E p \in Prices("3045") : UpdatePrices("3045", p)
  \/ ThreadNext

SpecFill == Init /\ [][NextFill]_vars

\* modify_order and cancel_order: the handlers race with the thread that
\* applies a fill, the fills themselves are applied one after another.
NextOrderApi ==
  \/ \E t \in {"3045", UnlistedToken}, s \in Sides :
       ClientPlaceOrder(MaxApiOrders, t, s, 1)
  \/ \E o \in OrderIds, q \in Quantities : ModifyOrderCheck(o, 0, q)
  \/ ModifyOrderUpdate
  \/ \E o \in OrderIds : CancelOrderCheck(o)
  \/ CancelOrderWrite
  \/ SerialFills

SpecOrderApi == Init /\ [][NextOrderApi]_vars

\* threading.Thread(target=process_order).start(): a started thread is
\* scheduled until it returns, whatever the handlers do meanwhile.
ThreadFairness ==
  \A o \in OrderIds :
    /\ WF_vars(\E success \in BOOLEAN : NoFillInProgress /\ P_Resolve(o, success))
    /\ WF_vars(P_Fill(o))

FairOrderApi == Init /\ [][NextOrderApi]_vars /\ ThreadFairness

(***************************************************************************)
(* The bot in front of the exchange: its endpoints, its two monitors, the  *)
(* clock and the price feeds, and the exchange resolving the orders the    *)
(* bot sends, each thread run in one piece.                                *)
(***************************************************************************)
BuyOrderTypes == {"points_trigger", "percentage_trigger", "candle_trigger"}
SellOrderTypes == {"points_stop", "percentage_stop", "candle_stop"}
TradeModes == {"single", "multi"}
TriggerIds == 1..MaxTriggers

\* The bot's monitors.
MonitorNext ==
  \/ TickStart
  \/ TickSkip
  \/ \E ok \in BOOLEAN : TickBuy(ok)
  \/ \E ok \in BOOLEAN : TickSellCheck(ok)
  \/ \E ok \in BOOLEAN : TickSellFire(ok)
  \/ \E ok \in BOOLEAN : AutoExitStart(ok)
  \/ \E t \in Tokens, ok \in BOOLEAN : AutoExitClose(t, ok)

\* The bot's price feed, the clock and the exchange resolving orders.
WorldNext ==
  \/ \E p \in Prices("3045") : PriceFeed("3045", p)
  \/ AdvanceClock
  \/ \E o \in OrderIds, success \in BOOLEAN : process_order(o, success)

\* Triggers on one instrument.
Next ==
  \/ Login
  \/ StartBot
  \/ StopBot
  \/ \E ot \in BuyOrderTypes, tm \in TradeModes :
       PlaceBuyTrigger("3045", 1, ot, tm, 500, 3)
  \/ \E st \in SellOrderTypes : PlaceSellTrigger("3045", st, 500, 3)
  \/ \E id \in TriggerIds : CancelTrigger(id)
  \/ MonitorNext
  \/ WorldNext

Spec == Init /\ [][Next]_vars

\* Positions on two instruments, taken and left by immediate orders, and
\* the auto-exit; no order is resolved while a pass of auto_exit_monitor
\* is under way.
NextAutoExit ==
  \/ Login
  \/ AdvanceClock
  \/ \E t \in Tokens, q \in Quantities, ok \in BOOLEAN : PlaceBuyOrderLive(t, q, ok)
  \/ \E t \in Tokens, ok \in BOOLEAN : PlaceSellManual(t, ok)
  \/ \E ok \in BOOLEAN : AutoExitStart(ok)
  \/ \E t \in Tokens, ok \in BOOLEAN : AutoExitClose(t, ok)
  \/ \E o \in OrderIds, success \in BOOLEAN : IdleBot /\ process_order(o, success)

SpecAutoExit == Init /\ [][NextAutoExit]_vars

\* Exits from one instrument: a position taken by immediate orders and left
\* by manual exits and stop triggers.
NextExit ==
  \/ Login
  \/ \E p \in Prices("3045") : PriceFeed("3045", p)
  \/ \E ok \in BOOLEAN : PlaceBuyOrderLive("3045", 1, ok)
  \/ \E ok \in BOOLEAN : PlaceSellManual("3045", ok)
  \/ \E st \in SellOrderTypes : PlaceSellTrigger("3045", st, 500, 3)
  \/ TickStart
  \/ TickSkip
  \/ \E ok \in BOOLEAN : TickSellCheck(ok)
  \/ \E ok \in BOOLEAN : TickSellFire(ok)
  \/ \E o \in OrderIds, success \in BOOLEAN : process_order(o, success)

SpecExit == Init /\ [][NextExit]_vars

\* Entry triggers on one instrument, with and without their parameter, at
\* prices around the thresholds: 5 points and 4 percent above a baseline
\* of 100.
NextEntry ==
  \/ Login
  \/ \E p \in {10000, 10400, 10500} : PriceFeed("3045", p)
  \/ \E ot \in {"points_trigger", "percentage_trigger"}, tm \in TradeModes,
        points \in {500, None}, percentage \in {4, None} :
        PlaceBuyTrigger("3045", 10, ot, tm, points, percentage)
  \/ TickStart
  \/ TickSkip
  \/ \E ok \in BOOLEAN : TickBuy(ok)
  \/ \E o \in OrderIds, success \in BOOLEAN : process_order(o, success)

SpecEntry == Init /\ [][NextEntry]_vars

\* Stop triggers on one instrument, with and without their parameter, placed
\* before and after the position is bought, at prices around the
\* thresholds: 5 points and 3 percent below an average of 520.50.
NextStop ==
  \/ Login
  \/ \E p \in {50488, 51550, 51551} : PriceFeed("3045", p)
  \/ \E ok \in BOOLEAN : PlaceBuyOrderLive("3045", 1, ok)
  \/ \E st \in SellOrderTypes, points \in {500, None}, percentage \in {3, None} :
        PlaceSellTrigger("3045", st, points, percentage)
  \/ TickStart
  \/ TickSkip
  \/ \E ok \in BOOLEAN : TickSellCheck(ok)
  \/ \E ok \in BOOLEAN : TickSellFire(ok)
  \/ \E o \in OrderIds, success \in BOOLEAN : process_order(o, success)

SpecStop == Init /\ [][NextStop]_vars

\* Entry and stop triggers on one instrument, with and without their
\* parameter, a position bought by an immediate order, and requests to the
\* exchange that fail.
NextContain ==
  \/ Login
  \/ \E p \in {50488} : PriceFeed("3045", p)
  \/ \E ok \in BOOLEAN : PlaceBuyOrderLive("3045", 1, ok)
  \/ \E tm \in TradeModes, points \in {500, None} :
        PlaceBuyTrigger("3045", 1, "points_trigger", tm, points, None)
  \/ \E points \in {500, None} : PlaceSellTrigger("3045", "points_stop", points, None)
  \/ TickStart
  \/ TickSkip
  \/ \E ok \in BOOLEAN : TickBuy(ok)
  \/ \E ok \in BOOLEAN : TickSellCheck(ok)
  \/ \E ok \in BOOLEAN : TickSellFire(ok)
  \/ \E o \in OrderIds, success \in BOOLEAN : process_order(o, success)

SpecContain == Init /\ [][NextContain]_vars

(***************************************************************************)
(* Properties of the exchange.                                             *)
(***************************************************************************)
\* Every thread has ended or not begun.
AllResolved == \A o \in OrderIds : thr[o].pc \in {"none", "done"}

TradesOf(o) == {tid \in DOMAIN trades : trades[tid].orderid = o}

\* C2: fills on one instrument applied one after another: after every fill
\* netqty is the sum of the filled BUY quantities minus the sum of the
\* filled SELL quantities, and is buyqty - sellqty of the position.
C2_NetQtyIsBuysMinusSells ==
  NoFillInProgress =>
    \A t \in Tokens :
      IF HasPosition(t)
      THEN /\ PositionOf(t).netqty = fillBuy[t] - fillSell[t]
           /\ PositionOf(t).netqty = PositionOf(t).buyqty - PositionOf(t).sellqty
      ELSE fillBuy[t] = 0 /\ fillSell[t] = 0

\* A BUY of 2 and a SELL of 1 have been applied to one instrument.
C2_Witness ==
  /\ NoFillInProgress
  /\ \E t \in Tokens :
       /\ HasPosition(t)
       /\ fillBuy[t] = 2 /\ fillSell[t] = 1
       /\ PositionOf(t).netqty = 1

\* C3: orders on one instrument resolved concurrently: once all of them
\* have resolved, netqty is the sum of the completed BUY quantities minus
\* the sum of the completed SELL quantities (no update is lost).
C3_NoLostUpdate ==
  AllResolved =>
    \A t \in Tokens :
      (IF HasPosition(t) THEN PositionOf(t).netqty ELSE 0) = fillBuy[t] - fillSell[t]

\* C4: an order whose status is complete or rejected keeps that status.
C4_TerminalStatusIsFinal ==
  [][\A o \in DOMAIN orders :
        orders[o].status \in {"complete", "rejected"}
          => orders'[o].status = orders[o].status]_vars

\* C5: once all orders have resolved, every complete order has exactly one
\* trade record referencing its order id, and there are as many trade
\* records as complete orders.
C5_OneTradePerCompleteOrder ==
  AllResolved =>
    /\ \A o \in DOMAIN orders :
         orders[o].status = "complete" => Cardinality(TradesOf(o)) = 1
    /\ Cardinality(DOMAIN trades)
         = Cardinality({o \in DOMAIN orders : orders[o].status = "complete"})

\* C9: after a fill has been applied in full, netqty = 0 implies
\* avgprice = 0.
C9_FlatMeansNoAverage ==
  NoFillInProgress =>
    \A t \in Tokens :
      HasPosition(t) /\ PositionOf(t).netqty = 0 => PositionOf(t).avgprice = 0

\* C10 as stated: once place_order has accepted an order, no operation
\* changes its quantity.
C10_QuantityImmutable ==
  [][\A o \in DOMAIN orders : orders'[o].quantity = orders[o].quantity]_vars

\* C10 as amended: an order's quantity is changed only by the update of a
\* modify_order call on that order; the background resolution, cancel_order
\* and place_order never change it; and for an order modify_order never
\* updated, the quantity recorded in its trade and the quantity applied to
\* the position are the quantity of the original request.
C10_QuantityChangedOnlyByModify ==
  /\ [][\A o \in DOMAIN orders :
          orders'[o].quantity # orders[o].quantity
            => hnd.pc = "modify" /\ hnd.orderid = o /\ hnd'.pc = "idle"]_vars
  /\ [](\A o \in DOMAIN orders :
          o \notin modified =>
            /\ orders[o].quantity = req[o].quantity
            /\ \A tid \in TradesOf(o) : trades[tid].quantity = req[o].quantity
            /\ thr[o].pc \in {"readnet", "readavg", "wnet", "wavg", "buyqty",
                              "sellqty", "wavg0", "pnl_if", "pnl_avg", "pnl",
                              "pnl_zero", "wltp"}
                 => thr[o].quantity = req[o].quantity)

\* An order nothing modified has been filled in full and has its trade.
C10_Witness ==
  \E o \in DOMAIN orders :
    /\ o \notin modified
    /\ thr[o].pc = "done"
    /\ orders[o].status = "complete"
    /\ TradesOf(o) # {}
    /\ fillBuy[orders[o].symboltoken] + fillSell[orders[o].symboltoken] = req[o].quantity


(***************************************************************************)
(* Properties of the bot.                                                  *)
(***************************************************************************)
\* A pass of trigger_monitor is under way.
InTick == task.pc \in {"tick", "fire_sell"}

\* The trigger the pass is at.
CurrentTrigger == active_orders[Head(task.queue)]

\* The step fires trigger id: execute_trigger is invoked for it.
Fired(id) == id \in DOMAIN fires /\ fires'[id].count > fires[id].count

\* The orders the step has the exchange accept.
NewOrders == DOMAIN req' \ DOMAIN req

\* C1: a single-mode entry trigger fires at most once, and once the tick in
\* which it fired is over its id is not in the registry again.
C1_SingleFiresOnce ==
  \A id \in DOMAIN fires :
    fires[id].single =>
      /\ fires[id].count <= 1
      /\ (fires[id].count = 1 /\ ~InTick) => id \notin DOMAIN active_orders

\* A single-mode entry trigger has fired, its tick is over, and a trigger
\* placed after it is in the registry of the active bot.
C1_Witness ==
  /\ IdleBot /\ bot_active
  /\ \E id \in DOMAIN fires :
       /\ fires[id].single /\ fires[id].count = 1
       /\ \E later \in DOMAIN active_orders : later > id

\* C7: when auto-exit has run the bot is disabled and the registry empty,
\* and until start_bot no trigger fires and no order comes from a trigger.
C7_NoFireAfterAutoExit ==
  /\ [](ax.state = "done" => ~bot_active)
  /\ [][(ax.state # "done" /\ ax'.state = "done") =>
           (~bot_active' /\ active_orders' = << >>)]_vars
  /\ [][(ax.state = "done" /\ ax'.state = "done") =>
           /\ \A id \in DOMAIN fires : ~Fired(id)
           /\ \A o \in NewOrders : req'[o].origin.by # "trigger"]_vars

\* Auto-exit has run, the bot has not been started again, and the registry
\* holds an entry trigger, placed since, whose condition the price meets.
C7_Witness ==
  /\ ax.state = "done"
  /\ IdleBot
  /\ \E id \in DOMAIN active_orders :
       /\ Qualifies(active_orders[id], price_data[active_orders[id].symbol_token])
       /\ ~TimedOut(active_orders[id], now)

\* C8 as stated: an entry trigger fires only if a price that meets its
\* condition arrived before created_at + ORDER_TIMEOUT_MINUTES.
C8_FiresOnlyOnEarlyPrice ==
  [][\A id \in DOMAIN fires : Fired(id) => fires[id].early]_vars

\* C8: a trigger older than the timeout at a tick is collected for removal
\* in that tick, without a fire and without an order, whatever the price;
\* what the tick collects is out of the registry at its end; and a
\* trigger fires only in a tick no later than created_at +
\* ORDER_TIMEOUT_MINUTES.
C8_TimedOutNeverFires ==
  /\ [][(task.pc = "tick" /\ task' # task /\
         task.current_time - CurrentTrigger.created_at > ORDER_TIMEOUT_MINUTES) =>
           /\ fires' = fires
           /\ NewOrders = {}
           /\ order_counter' = order_counter
           /\ IF task'.pc = "idle"
              THEN Head(task.queue) \notin DOMAIN active_orders'
              ELSE Head(task.queue) \in task'.remove]_vars
  /\ [][(InTick /\ task' # task) =>
           IF task'.pc = "idle"
           THEN \A id \in task.remove : id \notin DOMAIN active_orders'
           ELSE task.remove \subseteq task'.remove]_vars
  /\ [][\A id \in DOMAIN fires :
          Fired(id) =>
            /\ InTick /\ Head(task.queue) = id
            /\ task.current_time - CurrentTrigger.created_at
                 <= ORDER_TIMEOUT_MINUTES]_vars

\* A tick has collected a trigger older than the timeout that never fired
\* although the price meets its condition, and goes on to the next one.
C8_Witness ==
  /\ task.pc = "tick"
  /\ \E id \in task.remove :
       /\ task.current_time - active_orders[id].created_at > ORDER_TIMEOUT_MINUTES
       /\ Qualifies(active_orders[id], price_data[active_orders[id].symbol_token])
       /\ fires[id].count = 0

\* The closing orders of the auto-exit for instrument t.
ClosingOrders(t) == {o \in ax.orders : req[o].symboltoken = t}

\* C6: the auto-exit has run and every request of it was answered: each
\* instrument whose net quantity was not zero has exactly one closing
\* order, on the side opposite to the position and for |netqty|; an
\* instrument with net quantity zero has none.
C6_OneClosingOrderPerPosition ==
  (ax.state = "done" /\ ~ax.failed) =>
    \A t \in Tokens :
      IF ax.snap[t] = 0
      THEN ClosingOrders(t) = {}
      ELSE \E o \in ClosingOrders(t) :
             /\ ClosingOrders(t) = {o}
             /\ req[o].transactiontype = (IF ax.snap[t] > 0 THEN "SELL" ELSE "BUY")
             /\ req[o].quantity = Abs(ax.snap[t])

\* The step resolves order o to rejected.
Rejects(o) == orders[o].status # "rejected" /\ orders'[o].status = "rejected"

\* The resolution of an order to rejected creates no trade and no position
\* and changes no field of a position.
RejectionChangesNothing ==
  [][\A o \in DOMAIN orders :
       Rejects(o) => /\ trades' = trades /\ trade_counter' = trade_counter
                     /\ positions' = positions /\ heap' = heap]_vars

\* C11: when an order resolves to rejected no trade record and no position
\* record is created and no field of any position changes, and the order
\* stays in the order book with status rejected.
C11_RejectedLeavesNoTrace ==
  /\ RejectionChangesNothing
  /\ [][\A o \in DOMAIN orders :
          orders[o].status = "rejected" =>
            o \in DOMAIN orders' /\ orders'[o].status = "rejected"]_vars

\* Order o, which the step submits, is the SELL of an exit: of a stop trigger
\* or of a manual exit.
ExitOrder(o) ==
  /\ req'[o].transactiontype = "SELL"
  /\ req'[o].origin.by \in {"trigger", "manual"}

\* The net quantity the ledger has for instrument t.
NetQty(t) == IF t \in Tokens /\ HasPosition(t) THEN PositionOf(t).netqty ELSE 0

\* C12: the SELL order of an exit fire is of the net quantity the ledger has
\* for the instrument when the exit fires.
C12_ExitQuantityReadAtFiring ==
  [][\A o \in NewOrders :
       ExitOrder(o) => req'[o].quantity = NetQty(req'[o].symboltoken)]_vars

\* A stop trigger placed on a position of 1 has fired on a position of 2 and
\* sold 2.
C12_Witness ==
  \E o \in DOMAIN req :
    /\ req[o].origin.by = "trigger"
    /\ req[o].transactiontype = "SELL"
    /\ fires[req[o].origin.id].held = 1
    /\ req[o].quantity = 2

\* C13: an exit never submits an order for an instrument whose net quantity
\* is 0; a stop trigger that fires on such an instrument submits nothing, is
\* collected for removal, and the tick goes on to the next trigger, or ends
\* with the bot as active as before.
C13_NoPositionNoOrder ==
  /\ [][\A o \in NewOrders : ExitOrder(o) => NetQty(req'[o].symboltoken) # 0]_vars
  /\ [][(task.pc = "fire_sell" /\ task' # task
           /\ NetQty(CurrentTrigger.symbol_token) = 0) =>
          /\ Fired(Head(task.queue))
          /\ NewOrders = {}
          /\ order_counter' = order_counter
          /\ bot_active' = bot_active
          /\ IF Tail(task.queue) = << >>
             THEN task'.pc = "idle" /\ Head(task.queue) \notin DOMAIN active_orders'
             ELSE /\ task'.pc = "tick" /\ task'.queue = Tail(task.queue)
                  /\ Head(task.queue) \in task'.remove]_vars

\* A stop trigger has fired on a position that was sold off between its
\* check and its fire: nothing was submitted for it, and the tick is at the
\* next trigger.
C13_Witness ==
  /\ task.pc = "tick"
  /\ \E id \in task.remove :
       /\ active_orders[id].type = "sell_trigger"
       /\ fires[id].count = 1
       /\ \A o \in DOMAIN req : req[o].origin # [by |-> "trigger", id |-> id]
       /\ HasPosition(active_orders[id].symbol_token)
       /\ NetQty(active_orders[id].symbol_token) = 0

\* C14: cancel_trigger on an id in the registry answers success and removes
\* that trigger; on any other id it answers 404 and leaves the registry as
\* it is; every other trigger stays as it was.
C14_CancelRemovesExactlyOne ==
  [][\A id \in TriggerIds :
       CancelTrigger(id) =>
         /\ cancel_trigger_status(id) \in {200, 404}
         /\ cancel_trigger_status(id) = 200 =>
              /\ id \in DOMAIN active_orders
              /\ DOMAIN active_orders' = DOMAIN active_orders \ {id}
         /\ cancel_trigger_status(id) = 404 =>
              /\ id \notin DOMAIN active_orders
              /\ active_orders' = active_orders
         /\ \A other \in DOMAIN active_orders \ {id} :
              /\ other \in DOMAIN active_orders'
              /\ active_orders'[other] = active_orders[other]]_vars

\* The later of two triggers has been cancelled and the earlier one is in
\* the registry: the later one never fired, no time has passed since it was
\* made, and stop_bot and the auto-exit would have removed the earlier one
\* as well.
C14_Witness ==
  \E id \in DOMAIN fires :
    /\ id \notin DOMAIN active_orders
    /\ fires[id].count = 0
    /\ now = AUTO_EXIT_TIME - 5
    /\ task.pc = "idle"
    /\ \E other \in DOMAIN active_orders : other < id

\* C15: every order that place_order recorded, with status pending, has
\* status complete or rejected at some later moment, whatever the handlers
\* do, provided its thread is scheduled.
C15_AcceptedOrderIsResolved ==
  \A o \in OrderIds :
    (o \in DOMAIN orders /\ orders[o].status = "pending") ~>
      (o \in DOMAIN orders /\ orders[o].status \in {"complete", "rejected"})

\* Both orders of a run were accepted and their threads have returned, one
\* having completed its order and the other having rejected it.
C15_Witness ==
  /\ \A o \in DOMAIN orders : thr[o].pc = "done"
  /\ \E o \in DOMAIN orders : orders[o].status = "complete"
  /\ \E o \in DOMAIN orders : orders[o].status = "rejected"

\* C16: in every reachable state each order's status is one of pending,
\* complete, rejected: no order in flight is ever cancelled.
C16_NoCancellation ==
  \A o \in DOMAIN orders : orders[o].status \in {"pending", "complete", "rejected"}

\* C16 (amended): an order enters the book as pending, and its status
\* changes only when its own thread resolves it, to complete or rejected,
\* or when cancel_order writes cancelled for it.
C16_StatusChangesByResolutionOrCancel ==
  [][/\ \A o \in DOMAIN orders' \ DOMAIN orders : orders'[o].status = "pending"
     /\ \A o \in DOMAIN orders :
          /\ o \in DOMAIN orders'
          /\ orders'[o].status # orders[o].status =>
               \/ /\ thr[o].pc = "sleep" /\ thr'[o].pc # "sleep"
                  /\ orders'[o].status \in {"complete", "rejected"}
               \/ /\ hnd.pc = "cancel" /\ hnd.orderid = o /\ hnd'.pc = "idle"
                  /\ orders'[o].status = "cancelled"]_vars

\* An order was cancelled in flight: its status is cancelled and its thread
\* has not woken up yet.
C16_Witness ==
  \E o \in DOMAIN orders :
    /\ orders[o].status = "cancelled"
    /\ thr[o].pc = "sleep"
    /\ hnd.pc = "idle"

\* C17: a pass of trigger_monitor that starts while the bot is disabled
\* changes nothing: it evaluates, fires and retires no trigger, timed out
\* or not, and submits no order.  While the bot is disabled no pass is
\* under way, no trigger fires, no order is sent for a trigger, and a
\* trigger leaves the registry only through cancel_trigger or stop_bot.
C17_DisabledTickDoesNothing ==
  [][~bot_active =>
       /\ TickStart => UNCHANGED vars
       /\ ~InTick /\ ~InTick'
       /\ \A id \in DOMAIN fires : ~Fired(id)
       /\ \A o \in NewOrders : req'[o].origin.by # "trigger"
       /\ \A id \in DOMAIN active_orders :
            id \notin DOMAIN active_orders' => (CancelTrigger(id) \/ StopBot)]_vars

\* The bot is disabled and the registry holds an entry trigger that has timed
\* out and one whose condition the current price meets.
C17_Witness ==
  /\ ~bot_active
  /\ IdleBot
  /\ \E id \in DOMAIN active_orders : TimedOut(active_orders[id], now)
  /\ \E id \in DOMAIN active_orders :
       Qualifies(active_orders[id], price_data[active_orders[id].symbol_token])

\* C18: once auto-exit has run, it does not run again the same day: no
\* further pass starts, the bot is not disabled and the registry not
\* cleared by it again, and no further closing order is sent.
C18_AutoExitOncePerDay ==
  [][ax.state \in {"done", "rearmed"} =>
       /\ ax'.state \in {"done", "rearmed"}
       /\ ax.state = "rearmed" => ax'.state = "rearmed"
       /\ \A o \in NewOrders : req'[o].origin.by # "auto_exit"]_vars

\* The requests place_order refused: their token is not in the scrip master.
Refused == {o \in DOMAIN req : req[o].symboltoken \notin Tokens}

\* C19: a request for a token that is not in the scrip master fails at
\* submission: the step that refuses it changes neither the order book nor
\* the threads, trades and positions, and at no later moment is there an
\* order record, a thread or a trade for it.
C19_InvalidTokenLeavesNothing ==
  /\ [](\A o \in Refused :
          /\ o \notin DOMAIN orders
          /\ thr[o].pc = "none"
          /\ TradesOf(o) = {})
  /\ [][\A o \in NewOrders :
          req'[o].symboltoken \notin Tokens =>
            UNCHANGED <<orders, thr, trades, trade_counter, positions, heap>>]_vars

\* A request was refused for its token, the one after it was accepted and
\* filled, and every thread has returned.
C19_Witness ==
  /\ AllResolved
  /\ \E o \in Refused : \E later \in DOMAIN orders :
       /\ later > o
       /\ TradesOf(later) # {}

\* The orders the step submits for trigger id.
OrdersFor(id) == {o \in NewOrders : req'[o].origin = [by |-> "trigger", id |-> id]}

\* C20: every fire of a trigger submits exactly one market order for it in
\* the same pass, whether or not the pass retires the trigger.
C20_FireSubmitsOneOrder ==
  [][\A id \in DOMAIN fires : Fired(id) => Cardinality(OrdersFor(id)) = 1]_vars

\* The step has trigger id removed at the end of the pass under way.
Retires(id) ==
  IF task'.pc = "idle" THEN id \notin DOMAIN active_orders' ELSE id \in task'.remove

\* The step leaves trigger id in the registry as it is, and not collected.
Keeps(id) ==
  /\ id \in DOMAIN active_orders' /\ active_orders'[id] = active_orders[id]
  /\ task'.pc # "idle" => id \notin task'.remove

\* C21: a fire has an exit trigger and a single-mode entry trigger removed
\* at the end of the pass, and leaves a multi-mode entry trigger in the
\* registry with its record, initial_price included, as it was.  The rest
\* of the pass does not come back to a trigger: it removes what was
\* collected and nothing else.
C21_RetirementAfterFire ==
  /\ [][\A id \in DOMAIN fires :
          Fired(id) =>
            IF active_orders[id].type = "sell_trigger" THEN Retires(id)
            ELSE IF active_orders[id].trade_mode = "single" THEN Retires(id)
            ELSE Keeps(id)]_vars
  /\ [](InTick =>
          \A i, j \in 1..Len(task.queue) : i < j => task.queue[i] < task.queue[j])
  /\ [][(InTick /\ task' # task) =>
          /\ task'.pc # "idle" =>
               /\ active_orders' = active_orders
               /\ task.remove \subseteq task'.remove
               /\ task'.remove \ task.remove \subseteq {Head(task.queue)}
               /\ task'.queue \in {task.queue, Tail(task.queue)}
          /\ task'.pc = "idle" =>
               \A id \in DOMAIN active_orders \ {Head(task.queue)} :
                 IF id \in task.remove THEN id \notin DOMAIN active_orders'
                 ELSE id \in DOMAIN active_orders' /\ active_orders'[id] = active_orders[id]]_vars

\* A multi-mode entry trigger has fired twice and is in the registry after
\* the pass, while a single-mode trigger that fired is gone.
C21_Witness ==
  /\ IdleBot
  /\ \E id \in DOMAIN active_orders :
       /\ active_orders[id].type = "buy_trigger"
       /\ active_orders[id].trade_mode = "multi"
       /\ fires[id].count = MaxFires
  /\ \E id \in DOMAIN fires \ DOMAIN active_orders :
       fires[id].single /\ fires[id].count = 1

\* The condition of an entry trigger with baseline initial_price at price p,
\* in hundredths: p >= baseline + points, p >= baseline * (1 + percent/100).
EntryCondition(trigger, p) ==
  \/ /\ trigger.order_type = "points_trigger"
     /\ trigger.points # None
     /\ p >= trigger.initial_price + trigger.points
  \/ /\ trigger.order_type = "percentage_trigger"
     /\ trigger.percentage # None
     /\ p * 100 >= trigger.initial_price * 100 + trigger.initial_price * trigger.percentage

LedgerAvg(t) == IF HasPosition(t) THEN PositionOf(t).avgprice ELSE 0

\* The condition of an exit trigger at price p and average price e, in
\* hundredths: p <= e - points, p <= e * (1 - percent/100).
ExitCondition(trigger, p, e) ==
  /\ e # 0
  /\ \/ /\ trigger.sell_type = "points_stop"
        /\ trigger.points # None
        /\ p <= e - trigger.points
     \/ /\ trigger.sell_type = "percentage_stop"
        /\ trigger.percentage # None
        /\ p * 100 <= e * 100 - e * trigger.percentage

C24_NoPriceNoEvaluation ==
  [][(task.pc = "tick" /\ task' # task
      /\ ~TimedOut(CurrentTrigger, task.current_time)
      /\ price_data[CurrentTrigger.symbol_token] = 0) =>
       LET id == Head(task.queue)
       IN  /\ fires' = fires
           /\ NewOrders = {}
           /\ UNCHANGED xvars
           /\ task'.pc # "fire_sell"
           /\ task'.pc = "tick" => (task'.remove = task.remove /\ task'.queue = Tail(task.queue))
           /\ id \in DOMAIN active_orders'
           /\ active_orders'[id] = active_orders[id]]_vars

\* A pass has gone past a percentage trigger made when no price was known,
\* which its condition would meet at price 0, and no price is known yet.
C24_Witness ==
  /\ task.pc = "tick"
  /\ price_data["3045"] = 0
  /\ \E id \in DOMAIN active_orders :
       /\ id < Head(task.queue)
       /\ id \notin task.remove
       /\ active_orders[id].type = "buy_trigger"
       /\ active_orders[id].order_type = "percentage_trigger"
       /\ fires[id].count = 0

\* The thread of order o writes the net quantity of a BUY.
WritesBuyNet(o) ==
  thr[o].pc = "wnet" /\ thr'[o].pc = "wavg"

\* The thread of order o writes the average price of a BUY.
WritesBuyAvg(o) ==
  thr[o].pc = "wavg" /\ thr'[o].pc = "buyqty"

\* C25 as stated: the average a BUY fill writes is exactly
\* (oldNet*oldAvg + q*f)/newNet when newNet > 0, and 0 otherwise.
C25_ExactWeightedAverage ==
  [][\A o \in OrderIds :
       WritesBuyAvg(o) =>
         LET newNet == thr[o].current_net + thr[o].quantity
             avg == heap'[thr[o].position].avgprice
         IN  IF newNet > 0
             THEN avg * newNet = thr[o].current_net * thr[o].current_avg
                                   + thr[o].quantity * thr[o].execution_price
             ELSE avg = 0]_vars

\* C25 (amended): a BUY fill of quantity q at price f that read oldNet and
\* oldAvg from the position writes newNet = oldNet + q and the average
\* (oldNet*oldAvg + q*f)/newNet rounded to the nearest hundredth when
\* newNet > 0, and 0 otherwise; from a flat position the average is f.
C25_RoundedWeightedAverage ==
  /\ [][\A o \in OrderIds :
          WritesBuyNet(o) =>
            heap'[thr[o].position].netqty = thr[o].current_net + thr[o].quantity]_vars
  /\ [][\A o \in OrderIds :
          WritesBuyAvg(o) =>
            LET newNet == thr[o].current_net + thr[o].quantity
                sum == thr[o].current_net * thr[o].current_avg
                         + thr[o].quantity * thr[o].execution_price
                avg == heap'[thr[o].position].avgprice
            IN  /\ newNet > 0 => (2 * Abs(avg * newNet - sum) <= newNet)
                /\ newNet <= 0 => avg = 0
                /\ (thr[o].current_net = 0 /\ thr[o].current_avg = 0) =>
                     avg = thr[o].execution_price]_vars

\* Two BUY fills from flat, 1 at 500.00 then 2 at 520.50, both applied: the
\* average is 513.67, the nearest hundredth to 1541.00 / 3.
C25_Witness ==
  /\ AllResolved
  /\ HasPosition("3045")
  /\ PositionOf("3045").netqty = 3
  /\ PositionOf("3045").buyqty = 3
  /\ PositionOf("3045").avgprice = 51367

\* The step is one of the thread of order o, a SELL, applying its fill.
SellStep(o) ==
  /\ o \in DOMAIN orders /\ orders[o].transactiontype = "SELL"
  /\ thr'[o] # thr[o]
  /\ thr[o].pc \notin {"none", "sleep", "done"}

\* C26: a SELL fill of quantity q that read oldNet from the position writes
\* newNet = oldNet - q; it sets the average price to 0 when newNet = 0 and
\* writes no average price otherwise.
C26_SellKeepsAverage ==
  [][\A o \in OrderIds :
       SellStep(o) =>
         /\ (thr[o].pc = "wnet") =>
              heap'[thr[o].position].netqty = thr[o].current_net - thr[o].quantity
         /\ (thr[o].pc = "sellqty") =>
              (thr'[o].pc = "wavg0" <=> thr[o].current_net - thr[o].quantity = 0)
         /\ (thr[o].pc = "wavg0") => heap'[thr[o].position].avgprice = 0
         /\ (thr[o].pc # "wavg0") =>
              \A r \in DOMAIN heap \cap DOMAIN heap' :
                heap'[r].avgprice = heap[r].avgprice]_vars

\* A BUY of 2 and a SELL of 1 have been applied: 1 is left at the average
\* price of the BUY.
C26_Witness ==
  /\ AllResolved
  /\ HasPosition("3045")
  /\ PositionOf("3045").buyqty = 2
  /\ PositionOf("3045").sellqty = 1
  /\ PositionOf("3045").netqty = 1
  /\ PositionOf("3045").avgprice = 52050

\* The thread of order o, at pc, takes a step.
ThreadStepAt(o, pc) == thr[o].pc = pc /\ thr'[o] # thr[o]

\* C27: at the end of a fill the position's pnl is written from the values
\* the position holds after the fill's update: (lastPrice - avg) * newNet
\* when newNet is not 0, lastPrice being the price read when the order was
\* resolved, and 0 when newNet is 0.  No other statement of a fill writes
\* pnl.
C27_PnlAfterFill ==
  [][\A o \in OrderIds :
       /\ ThreadStepAt(o, "pnl_if") =>
            (thr'[o].pc = "pnl_zero" <=> heap[thr[o].position].netqty = 0)
       /\ ThreadStepAt(o, "pnl_zero") => heap'[thr[o].position].pnl = 0
       /\ ThreadStepAt(o, "pnl_avg") =>
            thr'[o].avg_price = heap[thr[o].position].avgprice
       /\ ThreadStepAt(o, "pnl") =>
            /\ thr[o].current_price = orders[o].price
            /\ heap'[thr[o].position].pnl =
                 (thr[o].current_price - thr[o].avg_price) * heap[thr[o].position].netqty
       /\ (thr'[o] # thr[o] /\ thr[o].pc \notin {"pnl", "pnl_zero", "none", "sleep", "done"}) =>
            \A r \in DOMAIN heap \cap DOMAIN heap' : heap'[r].pnl = heap[r].pnl]_vars

\* Two BUY fills of 1 have been applied, at 500.00 and then at 520.50: the
\* average is 510.25 and the pnl (520.50 - 510.25) * 2.
C27_Witness ==
  /\ AllResolved
  /\ HasPosition("3045")
  /\ PositionOf("3045").netqty = 2
  /\ PositionOf("3045").avgprice = 51025
  /\ PositionOf("3045").ltp = 52050
  /\ PositionOf("3045").pnl = 2050

\* C28: the thread of a MARKET order takes as fill price the instrument's
\* price at the moment it resolves the order, whatever the price was when
\* the order was submitted; that price is the one written to the order, to
\* its trade and, as lastPrice and in the average of a BUY, to the position.
C28_FillAtResolutionPrice ==
  /\ [][\A o \in OrderIds :
          /\ ThreadStepAt(o, "ltp") =>
               /\ thr'[o].execution_price = xprice[orders[o].symboltoken]
               /\ thr'[o].current_price = xprice[orders[o].symboltoken]
          /\ (thr'[o] # thr[o] /\ thr[o].pc \notin {"ltp", "wltp", "none", "sleep", "done"}) =>
               /\ thr'[o].execution_price = thr[o].execution_price
               /\ thr'[o].current_price = thr[o].current_price
          /\ ThreadStepAt(o, "setprice") => orders'[o].price = thr[o].execution_price
          /\ ThreadStepAt(o, "trade") =>
               trades'[thr[o].trade_id].price = thr[o].execution_price
          /\ ThreadStepAt(o, "readavg") =>
               thr'[o].new_avg = BuyNewAvg(thr[o].current_net, thr'[o].current_avg,
                                           thr[o].quantity, thr[o].execution_price)
          /\ ThreadStepAt(o, "wltp") =>
               (thr[o].position \in DOMAIN heap' =>
                  heap'[thr[o].position].ltp = thr[o].current_price)]_vars
  /\ [](\A o \in DOMAIN orders :
          /\ orders[o].status = "pending" => orders[o].price = 0
          /\ \A tid \in TradesOf(o) : trades[tid].price = orders[o].price)

\* An order submitted at 520.50 was filled after the price had moved to
\* 500.00: order, trade and position carry 500.00.
C28_Witness ==
  /\ AllResolved
  /\ DOMAIN orders = {1}
  /\ orders[1].status = "complete"
  /\ orders[1].price = 50000
  /\ \E tid \in TradesOf(1) : trades[tid].price = 50000
  /\ PositionOf("3045").ltp = 50000

\* The triggers that were registered and are in the registry no more.
Retired == DOMAIN fires \ DOMAIN active_orders

\* The ids the pass under way still has to visit.
Pending == IF InTick THEN {task.queue[i] : i \in DOMAIN task.queue} ELSE {}

\* C29: a trigger that has left the registry, by cancel_trigger, stop_bot,
\* auto-exit or the monitor's own removal, never returns to it, is visited
\* by no pass of the monitor, fires no more and has no order sent for it;
\* every trigger a pass visits is in the registry.
C29_RetirementIsFinal ==
  /\ [][\A id \in Retired :
          /\ id \in Retired'
          /\ ~Fired(id)
          /\ OrdersFor(id) = {}]_vars
  /\ [](Pending \cap Retired = {})
  /\ [](Pending \subseteq DOMAIN active_orders)

C29_Witness ==
  /\ InTick
  /\ \E id \in Retired :
       /\ fires[id].early
       /\ fires[id].count = 0
       /\ price_data["3045"] # 0
       /\ \E other \in Pending : other > id

\* execute_trigger raised inside: the trigger fired and no order was sent
\* for it (the gateway failed or refused, or there was nothing to sell).
GatewayError(id) == Fired(id) /\ OrdersFor(id) = {}

\* check_sell_trigger raised inside: get_positions failed.
QueryError ==
  \E ok \in BOOLEAN : TickSellCheck(ok) /\ ~(authenticated /\ ok)

\* check_buy_trigger or check_sell_trigger raised inside: the parameter of
\* the trigger's type was not given.
MissingParameter(trigger) ==
  /\ Evaluated(trigger)
  /\ \/ trigger.type = "buy_trigger" /\ trigger.order_type = "points_trigger"
          /\ trigger.points = None
     \/ trigger.type = "buy_trigger" /\ trigger.order_type = "percentage_trigger"
          /\ trigger.percentage = None
     \/ trigger.type = "sell_trigger" /\ trigger.sell_type = "points_stop"
          /\ trigger.points = None
     \/ trigger.type = "sell_trigger" /\ trigger.sell_type = "percentage_stop"
          /\ trigger.percentage = None

\* The step of a pass at which an error is raised for the trigger visited.
ErrorStep ==
  /\ InTick
  /\ task' # task
  /\ \/ GatewayError(Head(task.queue))
     \/ QueryError
     \/ task.pc = "tick" /\ MissingParameter(CurrentTrigger)

\* The pass goes on: to the next trigger with what was collected for removal
\* kept, or, after the last trigger, to the removal of what was collected
\* and the sleep before the next pass.
PassGoesOn ==
  LET id == Head(task.queue)
      rest == Tail(task.queue)
  IN  IF rest # << >>
      THEN /\ task'.pc = "tick"
           /\ task'.queue = rest
           /\ task'.current_time = task.current_time
           /\ task.remove \subseteq task'.remove
           /\ task'.remove \subseteq task.remove \cup {id}
           /\ active_orders' = active_orders
      ELSE /\ task' = IdleTask
           /\ \E remove \in {task.remove, task.remove \cup {id}} :
                active_orders' = Del(active_orders, remove)

\* C30: an error raised for one trigger of a pass (get_positions failing,
\* the order failing or refused, a parameter missing) leaves the pass going:
\* the next trigger is visited with the removals collected so far kept, and
\* after the last trigger the collected removals are made and the monitor
\* sleeps until its next pass.
C30_ErrorsAreContained ==
  [][ErrorStep => PassGoesOn]_vars

C30_Witness ==
  /\ task.pc = "tick"
  /\ \E id \in task.remove :
       /\ fires[id].count = 1
       /\ \A o \in DOMAIN req : req[o].origin # [by |-> "trigger", id |-> id]
       /\ \E other \in Pending : other > id

\* A trigger of a candle-based type.
Candle(trigger) ==
  \/ trigger.type = "buy_trigger" /\ trigger.order_type = "candle_trigger"
  \/ trigger.type = "sell_trigger" /\ trigger.sell_type = "candle_stop"

\* The step is one that clears the registry: stop_bot, or the end of a run
\* of auto_exit_monitor.
ClearsRegistry ==
  \/ StopBot
  \/ \E ok \in BOOLEAN : AutoExitStart(ok)
  \/ \E t \in Tokens, ok \in BOOLEAN : AutoExitClose(t, ok)

\* C31: a candle-based entry or exit trigger in the registry does not fire
\* and has no order sent for it, whatever the prices and the positions; a
\* pass collects it for removal only when it has timed out, and it leaves
\* the registry only by that removal, by cancel_trigger, by stop_bot or by
\* auto-exit.
C31_CandleNeverFires ==
  [][\A id \in DOMAIN active_orders :
       Candle(active_orders[id]) =>
         /\ ~Fired(id)
         /\ OrdersFor(id) = {}
         /\ (task'.pc \in {"tick", "fire_sell"} /\ id \in task'.remove) =>
              /\ InTick
              /\ TimedOut(active_orders[id], task.current_time)
         /\ id \notin DOMAIN active_orders' =>
              \/ CancelTrigger(id)
              \/ ClearsRegistry
              \/ /\ InTick
                 /\ task'.pc = "idle"
                 /\ TimedOut(active_orders[id], task.current_time)]_vars

C31_Witness ==
  /\ task.pc = "tick"
  /\ task.remove = {}
  /\ \E id \in DOMAIN active_orders :
       /\ active_orders[id].type = "buy_trigger"
       /\ active_orders[id].order_type = "candle_trigger"
       /\ price_data["3045"] >= active_orders[id].initial_price + active_orders[id].points
       /\ price_data["3045"] # 0
       /\ fires[id].count = 0
       /\ Head(task.queue) > id

\* C32: the net quantity the exchange has for an instrument is never below
\* 0, whatever exits the bot makes on positions it bought.
C32_NeverOversold ==
  \A t \in Tokens : NetQty(t) >= 0

\* C33: an order with status cancelled keeps that status, and no trade
\* record refers to it.
C33_CancelledStaysCancelled ==
  /\ [][\A o \in DOMAIN orders :
          orders[o].status = "cancelled" => orders'[o].status = "cancelled"]_vars
  /\ [](\A o \in DOMAIN orders : orders[o].status = "cancelled" => TradesOf(o) = {})

\* C34: every entry trigger in the registry has an initial_price above 0.
C34_BaselineIsAPrice ==
  \A id \in DOMAIN active_orders :
    active_orders[id].type = "buy_trigger" => active_orders[id].initial_price > 0

\* C35: after a fill has been applied in full, netqty # 0 implies
\* avgprice # 0.
C35_OpenMeansAverage ==
  NoFillInProgress =>
    \A t \in Tokens :
      HasPosition(t) /\ PositionOf(t).netqty # 0 => PositionOf(t).avgprice # 0

\* The step of a pass at a multi-mode entry trigger that has not timed out
\* and whose condition holds at the price of its instrument.
MultiDue ==
  /\ task.pc = "tick"
  /\ task' # task
  /\ CurrentTrigger.type = "buy_trigger"
  /\ CurrentTrigger.trade_mode = "multi"
  /\ Evaluated(CurrentTrigger)
  /\ check_buy_trigger(CurrentTrigger, price_data[CurrentTrigger.symbol_token])

\* C36: at every pass of the enabled bot at which a multi-mode entry trigger
\* has not timed out and its condition holds, one BUY order of the trigger's
\* quantity is sent for it, and the trigger stays as it is, with its
\* initial_price and its created_at.
C36_MultiFiresEveryTick ==
  [][MultiDue =>
       LET id == Head(task.queue) IN
       /\ Fired(id)
       /\ \E o \in OrdersFor(id) :
            /\ OrdersFor(id) = {o}
            /\ req'[o].transactiontype = "BUY"
            /\ req'[o].quantity = CurrentTrigger.quantity
       /\ Keeps(id)]_vars

\* C37: no check of auto_exit_monitor made at or after AUTO_EXIT_TIME with
\* the bot active ends with the bot still active or with a trigger in the
\* registry, whether get_positions answers or not.
C37_CheckAlwaysDisables ==
  ~ ENABLED (\E ok \in BOOLEAN :
               /\ AutoExitStart(ok)
               /\ task'.pc = "idle"
               /\ bot_active' \/ active_orders' # << >>)

\* A request of modify_order or cancel_order for order o is taken up.
HandlerStarts(o) ==
  \/ \E q \in Quantities : ModifyOrderCheck(o, 0, q)
  \/ CancelOrderCheck(o)

\* A step of modify_order or cancel_order.
HandlerStep ==
  \/ \E o \in OrderIds : HandlerStarts(o)
  \/ ModifyOrderUpdate
  \/ CancelOrderWrite

\* The step changes the order book, or has the handler go on to its write.
TouchesOrders == orders' # orders \/ hnd' # hnd

\* The step changes the trades or the positions.
TouchesLedger ==
  \/ trades' # trades
  \/ trade_counter' # trade_counter
  \/ positions' # positions
  \/ heap' # heap

\* C38: modify_order and cancel_order asked for an order that is not
\* pending answer with a failure and change nothing, the order's record
\* included; asked for an id that is not in the order book they answer
\* "Order not found" and change nothing; and no step of either creates a
\* trade or changes a position.
C38_RefusedRequestsChangeNothing ==
  /\ \A o \in OrderIds :
       /\ o \notin DOMAIN orders =>
            /\ modify_order_message(o) = "Order not found"
            /\ cancel_order_message(o) = "Order not found"
            /\ ~ ENABLED (HandlerStarts(o) /\ (TouchesOrders \/ TouchesLedger))
       /\ (o \in DOMAIN orders /\ orders[o].status # "pending") =>
            /\ modify_order_message(o) = "Cannot modify completed order"
            /\ cancel_order_message(o) = "Cannot cancel completed order"
            /\ ~ ENABLED (HandlerStarts(o) /\ (TouchesOrders \/ TouchesLedger))
  /\ ~ ENABLED (HandlerStep /\ TouchesLedger)

C38_Witness ==
  /\ hnd.pc = "idle"
  /\ \E o \in DOMAIN orders :
       /\ orders[o].status = "complete"
       /\ TradesOf(o) # {}
       /\ o \notin modified
       /\ ENABLED HandlerStarts(o)
  /\ \E o \in DOMAIN orders : orders[o].status = "rejected"
  /\ \E o \in OrderIds \ DOMAIN orders : ENABLED HandlerStarts(o)

=============================================================================
